---- MODULE Spec2Model ----
(***************************************************************************)
(* A model of the CV rating pipeline: document intake (parser.py), the     *)
(* extraction / rating fan-in of the orchestrator (app.py), the fairness   *)
(* judge (agent_judge.py) and the combiner (combiner.py).                  *)
(*                                                                         *)
(* Python values whose type varies at run time (JSON replies, Optional     *)
(* fields) are tagged tuples: None, Float(x), Str(s), NumStr(x), List(s),  *)
(* Dict(pairs).  A dict is the sequence of its <<key, value>> items in     *)
(* insertion order, keys pairwise distinct.                                *)
(***************************************************************************)
EXTENDS Integers, Sequences, FiniteSets, TLC

VARIABLES
    \* ---- JudgeAgent (agent_judge.py) ----
    batch_size,          \* JudgeAgent.batch_size
    candidates,          \* judge_all argument: list of CandidateInfo
    ratings,             \* judge_all argument / app.py `ratings`: list of CandidateRating
    max_workers,         \* judge_all argument
    batches,             \* judge_all local: list of (batch_candidates, batch_ratings, batch_num)
    futures,             \* one entry per submitted batch: state of its _judge_batch call
    all_judge_ratings,   \* judge_all local: the result list
    completed_batches,   \* judge_all local
    progress_calls,      \* the fractions progress_callback was called with, in order
    jpc,                 \* position of judge_all: "ready", "pool", "returned", "raised";
                         \* "batch" when one _judge_batch call runs on its own
    reply_in,            \* the reply of the service to the call in flight, when the
                         \* call is followed reply by reply; <<"none">> otherwise
    judge_service,       \* the reply the service gives for each batch, when it is a
                         \* function of the batch; << >> otherwise
    \* ---- app.py stages 5 and 6 ----
    cleaned_cvs,         \* list of CV dicts entering extraction
    infos,               \* list of CandidateInfo in completion order
    stage,               \* position of the run: "extract", "rate", "judge", "off"
    \* ---- CVParser (parser.py) ----
    pdf_files,           \* CVParser._pdf_files(): the documents, with what reading them does
    issued,              \* the uuid4() values drawn so far
    pfutures,            \* one entry per document: state of its _parse_single_pdf call
    parsed,              \* parse local: the result list
    parse_workers,       \* parse argument max_workers
    ppc,                 \* position of parse: "ready", "pool", "returned", "off"
    \* ---- combine (combiner.py) ----
    c_infos, c_ratings, c_judge,   \* the arguments of combine
    c_out,               \* what combine returned or raised; "pending" before the call
    \* ---- ExtractionAgent.extract (agent_extraction.py) ----
    e_cv,                \* the argument cv_data
    e_reply,             \* what the service call gave; "none" before it
    e_out,               \* what extract returned or raised; "pending" before that
    \* ---- one call of RatingAgent.rate (agent_rating.py) ----
    rt_candidate,        \* the argument candidate
    rt_reply,            \* what the service call gave; "none" before it
    rt_out,              \* what rate returned or raised; "pending" before that
    \* ---- one run of the pipeline (app.py) ----
    processing, start_pipeline, stop_requested, last_run,   \* st.session_state
    job_description,     \* whether a job description was given
    uploaded_files,      \* the uploaded documents, with what reading them does
    r_pc,                \* position of the run: "start", "save", "clean_jd", "parse",
                         \* "clean", "extract", "rate", "unwinding", "ended", "off"
    saved,               \* how many uploaded files were written to tmpdir
    parsed_cvs,          \* result of stage 3
    r_cleaned_cvs,       \* stage 4: the list built by the fan-in loop
    r_infos,             \* stage 5: the list built by the fan-in loop
    r_ratings,           \* stage 6: the list built by the fan-in loop
    units,               \* the futures of the running stage: state and result of each
    raised,              \* the exception travelling to the handlers; "none" if none
    outcome,             \* how the run ended: "rejected", "stopped", "warning", "error", "done"
    stop_clicked,        \* whether the user asked for a stop during this run
    service_failed       \* whether a call to the external service failed during this run

jvars == <<batch_size, candidates, ratings, max_workers, batches, futures,
           all_judge_ratings, completed_batches, progress_calls, jpc, reply_in,
           judge_service>>
avars == <<cleaned_cvs, infos, stage>>
pvars == <<pdf_files, issued, pfutures, parsed, parse_workers, ppc>>
cvars == <<c_infos, c_ratings, c_judge, c_out>>
evars == <<e_cv, e_reply, e_out>>
rvars == <<processing, start_pipeline, stop_requested, last_run, job_description,
           uploaded_files, r_pc, saved, parsed_cvs, r_cleaned_cvs, r_infos, r_ratings,
           units, raised, outcome, stop_clicked, service_failed>>
rtvars == <<rt_candidate, rt_reply, rt_out>>
vars == <<jvars, avars, pvars, cvars, evars, rvars, rtvars>>

----------------------------------------------------------------------------
\* Bounds of the model

MaxN == 2          \* most candidates handed to judge_all
MaxBatch == 2      \* largest JudgeAgent.batch_size tried
MaxWorkers == 2    \* largest max_workers tried
MaxDocs == 2       \* most documents in a pipeline run / in intake
MaxRecords == 2    \* longest list handed to combine
MaxIds == 2        \* how many candidate_ids the records handed to combine draw from
MaxUploads == 3    \* most documents uploaded for one run of the whole pipeline

----------------------------------------------------------------------------
\* Python values

None == <<"None">>
Float(x) == <<"float", x>>
Str(s) == <<"str", s>>
NumStr(x) == <<"numstr", x>>     \* a str whose text is the numeral of x
List(s) == <<"list", s>>
Dict(items) == <<"dict", items>>

IsList(v) == v[1] = "list"
IsDict(v) == v[1] = "dict"

\* k in d
Has(d, k) == \E i \in 1..Len(d[2]) : d[2][i][1] = k
\* d[k], for k in d
Get(d, k) == d[2][CHOOSE i \in 1..Len(d[2]) : d[2][i][1] = k][2]
\* d.get(k)
GetOrNone(d, k) == IF Has(d, k) THEN Get(d, k) ELSE None
\* d after d.pop(k, None)
Pop(d, k) == Dict(SelectSeq(d[2], LAMBDA it : it[1] # k))
\* d after d[k] = v
Put(d, k, v) ==
    IF Has(d, k)
    THEN Dict([i \in 1..Len(d[2]) |-> IF d[2][i][1] = k THEN <<k, v>> ELSE d[2][i]])
    ELSE Dict(Append(d[2], <<k, v>>))

DigitText == <<"0", "1", "2", "3", "4", "5", "6", "7", "8", "9">>
RECURSIVE ToText(_)
\* str(n) of a natural number
ToText(n) == IF n < 10 THEN DigitText[n + 1] ELSE ToText(n \div 10) \o DigitText[(n % 10) + 1]

RECURSIVE JoinText(_)
\* ', '.join(str(item) for item in items), str(item) of a str item being the item
JoinText(items) ==
    IF Len(items) = 0 THEN ""
    ELSE IF Len(items) = 1 THEN items[1][2]
    ELSE items[1][2] \o ", " \o JoinText(Tail(items))

\* `except Exception` catches every exception class the stage can meet
CaughtOnlyValueError(e) == e \in {"ValueError", "ValidationError"}
CaughtByExceptException(e) ==
    e \in {"APIError", "ValueError", "ValidationError", "TypeError", "AttributeError", "KeyError",
           "MemoryError"}

----------------------------------------------------------------------------
\* models.py

FileOf(c) == "cv_" \o ToText(c) \o ".pdf"

CandidateInfo(c) == [candidate_id |-> c, file |-> FileOf(c), name |-> "Name " \o ToText(c)]

\* The Rating the rater produced for candidate c: scores pairwise different,
\* optional fields both set and unset.
InitialRating(c) ==
    [candidate_id |-> c, file |-> FileOf(c), score |-> c + 2,
     strengths |-> IF c % 2 = 1 THEN Str("strengths of " \o ToText(c)) ELSE None,
     weaknesses |-> Str("weaknesses of " \o ToText(c)),
     rationale |-> IF c % 3 = 0 THEN None ELSE Str("rationale of " \o ToText(c))]

\* pydantic's validation of a `float` field; the value, or "error"
AsFloat(v) ==
    IF v[1] = "float" THEN Float(v[2])
    ELSE IF v[1] = "numstr" THEN Float(v[2])
    ELSE <<"error">>

\* pydantic's validation of an Optional[float] field
AsOptFloat(v) == IF v = None THEN None ELSE AsFloat(v)

\* pydantic's validation of an Optional[str] field
AsOptStr(v) ==
    IF v = None THEN None
    ELSE IF v[1] = "str" THEN v
    ELSE IF v[1] = "numstr" THEN v
    ELSE <<"error">>

\* pydantic's validation of the fields of a JudgeRating whose identity is that
\* of `candidate`: the record, or the ValidationError
ValidatedJudgeRating(candidate, rating_data) ==
    IF ~Has(rating_data, "score")
    THEN [exc |-> "ValidationError"]
    ELSE LET score == AsFloat(Get(rating_data, "score"))
             strengths == AsOptStr(GetOrNone(rating_data, "strengths"))
             weaknesses == AsOptStr(GetOrNone(rating_data, "weaknesses"))
             rationale == AsOptStr(GetOrNone(rating_data, "rationale"))
             initial_score == AsOptFloat(GetOrNone(rating_data, "initial_score"))
             score_adjustment == AsOptStr(GetOrNone(rating_data, "score_adjustment"))
         IN IF <<"error">> \in {score, strengths, weaknesses, rationale,
                                initial_score, score_adjustment}
            THEN [exc |-> "ValidationError"]
            ELSE [exc |-> "none",
                  value |-> [candidate_id |-> candidate.candidate_id,
                             file |-> candidate.file,
                             score |-> score[2],
                             strengths |-> strengths,
                             weaknesses |-> weaknesses,
                             rationale |-> rationale,
                             initial_score |-> initial_score,
                             score_adjustment |-> score_adjustment]]

\* The construction with a candidate_id of the reply dropped like its 'file'
JudgeRatingIgnoringId(candidate, rating_data) ==
    IF Has(rating_data, "file")
    THEN [exc |-> "TypeError"]
    ELSE ValidatedJudgeRating(candidate, Pop(rating_data, "candidate_id"))

\* JudgeRating(candidate_id=..., file=..., **rating_data): the record, or the
\* exception the call raises
JudgeRatingFromReply(candidate, rating_data) ==
    IF Has(rating_data, "candidate_id") \/ Has(rating_data, "file")
    THEN [exc |-> "TypeError"]      \* got multiple values for keyword argument
    ELSE ValidatedJudgeRating(candidate, rating_data)

----------------------------------------------------------------------------
\* agent_judge.py: JudgeAgent._judge_batch

max_retries == 3

Min(a, b) == IF a < b THEN a ELSE b

\* The JudgeRating every fallback site builds from the original rating
FallbackRating(candidate, rating, note) ==
    [candidate_id |-> candidate.candidate_id,
     file |-> candidate.file,
     score |-> rating.score,
     strengths |-> rating.strengths,
     weaknesses |-> rating.weaknesses,
     rationale |-> rating.rationale,
     initial_score |-> Float(rating.score),
     score_adjustment |-> Str(note)]

\* for candidate, rating in zip(candidates, ratings): append the fallback
BatchFallback(cands, rats, note) ==
    [i \in 1..Min(Len(cands), Len(rats)) |-> FallbackRating(cands[i], rats[i], note)]

NoteParsing == "No adjustment - using original rating due to parsing error"
NoteMissingReply == "No adjustment - using original rating due to missing LLM response"
NoteRetries ==
    "No adjustment - using original rating due to LLM failure after "
        \o ToText(max_retries) \o " attempts"
NoteBatchError(batch_num) ==
    "No adjustment - using original rating due to batch " \o ToText(batch_num) \o " error"
NoteMissingJudge == "No adjustment - using original rating due to missing judge rating"

RECURSIVE FirstRatingList(_)
\* the for/else over parsed.items(): the first value that is a non-empty list
\* whose first element is a dict holding "file"; else the ValueError
FirstRatingList(items) ==
    IF Len(items) = 0 THEN <<"raise", "ValueError">>
    ELSE LET value == items[1][2]
         IN IF IsList(value) /\ Len(value[2]) > 0 /\ IsDict(value[2][1])
                 /\ Has(value[2][1], "file")
            THEN <<"ok", value[2]>>
            ELSE FirstRatingList(Tail(items))

\* The response-shape recovery: the ratings array of a parsed reply, or the
\* ValueError raised for it
RatingsArray(reply_json) ==
    IF IsList(reply_json) THEN <<"ok", reply_json[2]>>
    ELSE IF IsDict(reply_json)
    THEN IF Has(reply_json, "ratings") /\ IsList(Get(reply_json, "ratings"))
         THEN <<"ok", Get(reply_json, "ratings")[2]>>
         ELSE IF Has(reply_json, "file") /\ Has(reply_json, "score")
         THEN <<"ok", <<reply_json>> >>
         ELSE IF \E i \in 1..Len(reply_json[2]) : IsList(reply_json[2][i][2])
         THEN FirstRatingList(reply_json[2])
         ELSE <<"raise", "ValueError">>
    ELSE <<"raise", "ValueError">>

\* rating_data.pop('file', None)
PopFile(rating_data) == Pop(rating_data, "file")

\* One element of the ratings array turned into the JudgeRating of the candidate
\* at its position (copy, pop 'file', join list-valued strengths / weaknesses,
\* construct), or the exception the element raises
ElementRating(element, candidate) ==
    IF IsList(element) THEN [exc |-> "TypeError"]             \* list.pop('file', None)
    ELSE IF ~IsDict(element) THEN [exc |-> "AttributeError"]  \* no .copy()
    ELSE LET d0 == PopFile(element)
             d1 == IF IsList(GetOrNone(d0, "strengths"))
                   THEN Put(d0, "strengths", Str(JoinText(Get(d0, "strengths")[2])))
                   ELSE d0
             d2 == IF IsList(GetOrNone(d1, "weaknesses"))
                   THEN Put(d1, "weaknesses", Str(JoinText(Get(d1, "weaknesses")[2])))
                   ELSE d1
         IN JudgeRatingFromReply(candidate, d2)

\* The count-mismatch branch without its else: the members beyond the reply get nothing
MismatchRatingsNoFallback(ratings_array, cands, rats) ==
    LET k == Min(Len(ratings_array), Min(Len(cands), Len(rats)))
        made == [i \in 1..k |-> ElementRating(ratings_array[i], cands[i])]
        bad == {i \in 1..k : made[i].exc # "none"}
    IN IF bad # {}
       THEN <<"raise", made[CHOOSE i \in bad : \A j \in bad : i <= j].exc>>
       ELSE <<"return", [i \in 1..k |-> made[i].value]>>

\* The count-mismatch branch: members up to the reply's length take the element
\* at their position, the others get a fallback
MismatchRatings(ratings_array, cands, rats) ==
    LET z == Min(Len(cands), Len(rats))
        k == Min(Len(ratings_array), z)
        made == [i \in 1..k |-> ElementRating(ratings_array[i], cands[i])]
        bad == {i \in 1..k : made[i].exc # "none"}
    IN IF bad # {}
       THEN <<"raise", made[CHOOSE i \in bad : \A j \in bad : i <= j].exc>>
       ELSE <<"return",
              [i \in 1..z |->
                  IF i <= k THEN made[i].value
                  ELSE FallbackRating(cands[i], rats[i], NoteMissingReply)]>>

\* The normal branch: zip(ratings_array, candidates, ratings)
ZippedRatings(ratings_array, cands, rats) ==
    LET z == Min(Len(ratings_array), Min(Len(cands), Len(rats)))
        made == [i \in 1..z |-> ElementRating(ratings_array[i], cands[i])]
        bad == {i \in 1..z : made[i].exc # "none"}
    IN IF bad # {}
       THEN <<"raise", made[CHOOSE i \in bad : \A j \in bad : i <= j].exc>>
       ELSE <<"return", [i \in 1..z |-> made[i].value]>>

\* The try block with an empty ratings array treated as one more failed attempt
JudgeAttemptEmptyFails(reply, cands, rats) ==
    IF reply[1] = "raise" THEN <<"raise", "APIError">>
    ELSE IF reply[1] = "no_content" THEN <<"raise", "ValueError">>
    ELSE IF reply[1] = "not_json" THEN <<"raise", "ValueError">>
    ELSE LET arr == RatingsArray(reply[2])
         IN IF arr[1] = "raise" THEN arr
            ELSE IF Len(arr[2]) = 0
            THEN <<"raise", "ValueError">>
            ELSE IF Len(arr[2]) # Len(cands)
            THEN MismatchRatings(arr[2], cands, rats)
            ELSE ZippedRatings(arr[2], cands, rats)

\* The body of the try block for one reply of the service: what it returns, or
\* the exception it raises
JudgeAttempt(reply, cands, rats) ==
    IF reply[1] = "raise" THEN <<"raise", "APIError">>
    ELSE IF reply[1] = "no_content" THEN <<"raise", "ValueError">>
    ELSE IF reply[1] = "not_json" THEN <<"raise", "ValueError">>
    ELSE LET arr == RatingsArray(reply[2])
         IN IF arr[1] = "raise" THEN arr
            ELSE IF Len(arr[2]) = 0
            THEN <<"return", BatchFallback(cands, rats, NoteParsing)>>
            ELSE IF Len(arr[2]) # Len(cands)
            THEN MismatchRatings(arr[2], cands, rats)
            ELSE ZippedRatings(arr[2], cands, rats)

\* The except clause without the fallback of the last attempt
AfterFailureReraise(e, attempt, cands, rats) ==
    IF ~CaughtByExceptException(e) \/ attempt = max_retries - 1
    THEN <<"raise", e>>
    ELSE <<"retry">>

\* The except clause of one attempt, after `attempt` failed attempts: "retry",
\* or the state in which the call ends
AfterFailure(e, attempt, cands, rats) ==
    IF ~CaughtByExceptException(e) THEN <<"raise", e>>
    ELSE IF attempt = max_retries - 1
    THEN <<"return", BatchFallback(cands, rats, NoteRetries)>>
    ELSE <<"retry">>

----------------------------------------------------------------------------
\* The external service: the replies it may give to the prompt of a batch of n

ElFull ==
    Dict(<< <<"file", Str("a.pdf")>>, <<"score", NumStr(9)>>,
            <<"strengths", List(<<Str("python"), Str("sql")>>)>>,
            <<"weaknesses", Str("judge weaknesses")>>,
            <<"rationale", Str("judge rationale")>>, <<"initial_score", Float(1)>>,
            <<"score_adjustment", Str("adjusted")>> >>)
ElMinimal == Dict(<< <<"file", Str("b.pdf")>>, <<"score", Float(8)>> >>)
ElNoScore == Dict(<< <<"file", Str("d.pdf")>>, <<"strengths", Str("judge strengths")>> >>)
ElBadScore == Dict(<< <<"file", Str("e.pdf")>>, <<"score", Str("high")>> >>)
ElWithId ==
    Dict(<< <<"candidate_id", Str("other")>>, <<"file", Str("f.pdf")>>, <<"score", Float(7)>> >>)
ElNotDict == Str("n/a")
ElList == List(<< >>)

WellFormedElements == {ElFull, ElMinimal}
ReplyElements == WellFormedElements \cup {ElNoScore, ElBadScore, ElWithId, ElNotDict, ElList}

ArraysOf(elements, maxlen) == UNION {[1..k -> elements] : k \in 0..maxlen}

Replies(n) ==
    {<<"raise">>, <<"no_content">>, <<"not_json">>}
    \cup {<<"json", List(a)>> : a \in ArraysOf(ReplyElements, n + 1)}
    \cup {<<"json", Dict(<< <<"ratings", List(a)>> >>)>> :
             a \in ArraysOf(WellFormedElements, n + 1)}
    \cup {<<"json", Dict(<< <<"note", Str("see results")>>, <<"tags", List(<<Str("x")>>)>>,
                            <<"results", List(a)>> >>)>> :
             a \in ArraysOf({ElFull, ElNoScore}, n + 1)}
    \cup {<<"json", Dict(<< <<"results", List(<<ElFull>>)>> >>)>>}
    \cup {<<"json", v>> : v \in {ElFull, ElMinimal, ElNoScore, ElBadScore,
                                 Dict(<< <<"ratings", Str("none")>> >>),
                                 Dict(<< <<"tags", List(<<Str("x")>>)>> >>),
                                 Dict(<< >>), Float(5), Str("text"), None}}

----------------------------------------------------------------------------
\* agent_judge.py: JudgeAgent.judge_all

\* s[lo:hi]
SliceToEnd(s, lo, hi) == SubSeq(s, lo + 1, Len(s))
Slice(s, lo, hi) == SubSeq(s, lo + 1, Min(hi, Len(s)))

\* range(0, n, step) as the offsets it yields
RangeBy(n, step) == {i \in 0..(n - 1) : i % step = 0}

\* The batches with one candidate too many in each slice
MakeBatchesOverlapping(cands, rats, size) ==
    [b \in 1..Cardinality(RangeBy(Len(cands), size)) |->
        LET i == (b - 1) * size
        IN [batch_candidates |-> Slice(cands, i, i + size + 1),
            batch_ratings |-> Slice(rats, i, i + size + 1),
            batch_num |-> (i \div size) + 1]]

\* The list `batches`: contiguous slices of candidates and of ratings
MakeBatches(cands, rats, size) ==
    [b \in 1..Cardinality(RangeBy(Len(cands), size)) |->
        LET i == (b - 1) * size
        IN [batch_candidates |-> Slice(cands, i, i + size),
            batch_ratings |-> Slice(rats, i, i + size),
            batch_num |-> (i \div size) + 1]]

\* total_batches = (len(candidates) + self.batch_size - 1) // self.batch_size
total_batches_rounded_down(n, size) == n \div size
total_batches(n, size) == (n + size - 1) \div size

\* completed_batches / total_batches, kept as the pair of its terms
Fraction(num, den) == [num |-> num, den |-> den]

\* time.sleep(2 ** attempt) before the next attempt
BackoffFixed(attempt) == 1
Backoff(attempt) == 2 ^ attempt

\* A future: its state, the index of the running attempt, how many attempts
\* have raised so far, how many times the service was called, the waits made
\* between attempts, and how the call ended
Pending ==
    [state |-> "pending", attempt |-> 0, failed |-> 0, calls |-> 0, slept |-> << >>,
     outcome |-> <<"none">>]

Running == {b \in DOMAIN futures : futures[b].state = "running"}

\* judge_all is entered: the batches are cut and all submitted to the pool
judge_all_begin ==
    /\ jpc = "ready"
    /\ batches' = MakeBatches(candidates, ratings, batch_size)
    /\ futures' = [b \in 1..Len(batches') |-> Pending]
    /\ all_judge_ratings' = << >>
    /\ completed_batches' = 0
    /\ progress_calls' = << >>
    /\ jpc' = "pool"
    /\ UNCHANGED <<batch_size, candidates, ratings, max_workers, reply_in, judge_service,
                   avars, pvars, cvars, evars, rvars, rtvars>>

\* A free worker of the pool takes the oldest submitted batch
worker_takes(b) ==
    /\ jpc = "pool"
    /\ b \in DOMAIN futures
    /\ futures[b].state = "pending"
    /\ \A a \in DOMAIN futures : a < b => futures[a].state # "pending"
    /\ Cardinality(Running) < max_workers
    /\ futures' = [futures EXCEPT ![b].state = "running"]
    /\ UNCHANGED <<batch_size, candidates, ratings, max_workers, batches,
                   all_judge_ratings, completed_batches, progress_calls, jpc, reply_in,
                   judge_service,
                   avars, pvars, cvars, evars, rvars, rtvars>>

\* One pass of the retry loop of _judge_batch for batch b, the service having
\* answered `reply`: the try block runs, the except clause decides
attempt_with(b, reply) ==
    /\ b \in DOMAIN futures
    /\ futures[b].state = "running"
    /\ LET cands == batches[b].batch_candidates
           rats == batches[b].batch_ratings
           tried == JudgeAttempt(reply, cands, rats)
           ended == IF tried[1] = "raise"
                    THEN AfterFailure(tried[2], futures[b].attempt, cands, rats)
                    ELSE tried
           failed == futures[b].failed + (IF tried[1] = "raise" THEN 1 ELSE 0)
       IN futures' = [futures EXCEPT ![b] =
               IF ended[1] = "retry"
               THEN [@ EXCEPT !.attempt = @ + 1, !.failed = failed, !.calls = @ + 1,
                               !.slept = Append(@, Backoff(futures[b].attempt))]
               ELSE [@ EXCEPT !.state = "done", !.failed = failed, !.calls = @ + 1,
                               !.outcome = ended]]
    /\ UNCHANGED <<batch_size, candidates, ratings, max_workers, batches,
                   all_judge_ratings, completed_batches, progress_calls, jpc, judge_service,
                   avars, pvars, cvars, evars, rvars, rtvars>>

\* A pool worker makes one attempt for batch b, whatever the service answers
judge_batch_attempt(b) ==
    /\ jpc \in {"pool", "raised"}
    /\ b \in DOMAIN futures
    /\ \E reply \in Replies(Len(batches[b].batch_candidates)) : attempt_with(b, reply)
    /\ UNCHANGED reply_in

\* The pass of the loop with the result list assigned instead of extended
fan_in_assigning(b) ==
    /\ jpc = "pool"
    /\ b \in DOMAIN futures
    /\ futures[b].state = "done"
    /\ futures' = [futures EXCEPT ![b].state = "collected"]
    /\ completed_batches' = completed_batches + 1
    /\ progress_calls' = Append(progress_calls,
                                Fraction(completed_batches + 1,
                                         total_batches(Len(candidates), batch_size)))
    /\ all_judge_ratings' =
           IF futures[b].outcome[1] = "return" THEN futures[b].outcome[2]
           ELSE BatchFallback(batches[b].batch_candidates, batches[b].batch_ratings,
                              NoteBatchError(batches[b].batch_num))
    /\ UNCHANGED <<batch_size, candidates, ratings, max_workers, batches, reply_in,
                   judge_service, jpc, avars, pvars, cvars, evars, rvars, rtvars>>

\* One pass of the as_completed loop: the result of a finished batch is merged,
\* or the exception of its future is turned into fallbacks
fan_in(b) ==
    /\ jpc = "pool"
    /\ b \in DOMAIN futures
    /\ futures[b].state = "done"
    /\ futures' = [futures EXCEPT ![b].state = "collected"]
    /\ completed_batches' = completed_batches + 1
    /\ progress_calls' = Append(progress_calls,
                                Fraction(completed_batches + 1,
                                         total_batches(Len(candidates), batch_size)))
    /\ LET out == futures[b].outcome
       IN IF out[1] = "return"
          THEN /\ all_judge_ratings' = all_judge_ratings \o out[2]
               /\ jpc' = jpc
          ELSE IF CaughtByExceptException(out[2])
          THEN /\ all_judge_ratings' = all_judge_ratings \o
                      BatchFallback(batches[b].batch_candidates, batches[b].batch_ratings,
                                    NoteBatchError(batches[b].batch_num))
               /\ jpc' = jpc
          ELSE /\ all_judge_ratings' = all_judge_ratings
               /\ jpc' = "raised"
    /\ UNCHANGED <<batch_size, candidates, ratings, max_workers, batches, reply_in, judge_service,
                   avars, pvars, cvars, evars, rvars, rtvars>>

\* The candidates whose file no collected rating carries get a fallback
Reconciled(result, cands, rats) ==
    IF Len(result) # Len(cands)
    THEN LET processed_files == {result[i].file : i \in 1..Len(result)}
             zipped == [i \in 1..Min(Len(cands), Len(rats)) |-> <<cands[i], rats[i]>>]
             missing == SelectSeq(zipped, LAMBDA p : p[1].file \notin processed_files)
         IN result \o [i \in 1..Len(missing) |->
                          FallbackRating(missing[i][1], missing[i][2], NoteMissingJudge)]
    ELSE result

\* Every batch is merged: the count is validated and judge_all returns
judge_all_return ==
    /\ jpc = "pool"
    /\ \A b \in DOMAIN futures : futures[b].state = "collected"
    /\ all_judge_ratings' = Reconciled(all_judge_ratings, candidates, ratings)
    /\ jpc' = "returned"
    /\ UNCHANGED <<batch_size, candidates, ratings, max_workers, batches, futures,
                   completed_batches, progress_calls, reply_in, judge_service, avars, pvars,
                   cvars, evars, rvars, rtvars>>

JudgeNext ==
    \/ judge_all_begin
    \/ \E b \in 1..MaxN : worker_takes(b)
    \/ \E b \in 1..MaxN : judge_batch_attempt(b)
    \/ \E b \in 1..MaxN : fan_in(b)
    \/ judge_all_return

----------------------------------------------------------------------------
\* The parts of the program a specification does not run

AppOff == cleaned_cvs = << >> /\ infos = << >> /\ stage = "off"
ParseOff ==
    /\ pdf_files = << >> /\ issued = {} /\ pfutures = << >> /\ parsed = << >>
    /\ parse_workers = 1 /\ ppc = "off"
CombineOff == c_infos = << >> /\ c_ratings = << >> /\ c_judge = << >> /\ c_out = <<"off">>
ExtractOff == e_cv = << >> /\ e_reply = <<"none">> /\ e_out = <<"off">>
RateOff == rt_candidate = << >> /\ rt_reply = <<"none">> /\ rt_out = <<"off">>
RunOff ==
    /\ processing = FALSE /\ start_pipeline = FALSE /\ stop_requested = FALSE
    /\ last_run = <<"None">> /\ job_description = FALSE /\ uploaded_files = << >>
    /\ r_pc = "off" /\ saved = 0 /\ parsed_cvs = << >> /\ r_cleaned_cvs = << >>
    /\ r_infos = << >> /\ r_ratings = << >> /\ units = << >> /\ raised = "none"
    /\ outcome = "none" /\ stop_clicked = FALSE /\ service_failed = FALSE
JudgeOff ==
    /\ batch_size = 1 /\ candidates = << >> /\ ratings = << >> /\ max_workers = 1
    /\ batches = << >> /\ futures = << >> /\ all_judge_ratings = << >>
    /\ completed_batches = 0 /\ progress_calls = << >> /\ jpc = "off" /\ reply_in = <<"none">>
    /\ judge_service = << >>

----------------------------------------------------------------------------
\* Spec: JudgeAgent(batch_size).judge_all(candidates[N], ratings[N], max_workers),
\* ratings[i] being the Rating of candidates[i]

Init ==
    /\ batch_size \in 1..MaxBatch
    /\ max_workers \in 1..MaxWorkers
    /\ \E n \in 0..MaxN :
          /\ candidates = [i \in 1..n |-> CandidateInfo(i)]
          /\ ratings = [i \in 1..n |-> InitialRating(i)]
    /\ batches = << >> /\ futures = << >> /\ all_judge_ratings = << >>
    /\ completed_batches = 0 /\ progress_calls = << >> /\ jpc = "ready" /\ reply_in = <<"none">>
    /\ judge_service = << >>
    /\ AppOff /\ ParseOff /\ CombineOff /\ ExtractOff /\ RunOff /\ RateOff

Next == JudgeNext

Spec == Init /\ [][Next]_vars

----------------------------------------------------------------------------
\* SpecBatch: one call _judge_batch(candidates[n], ratings[n]) followed reply by
\* reply, ratings[i] being the Rating of candidates[i]

InitBatch ==
    /\ \E n \in 1..MaxBatch :
          /\ batch_size = n
          /\ candidates = [i \in 1..n |-> CandidateInfo(i)]
          /\ ratings = [i \in 1..n |-> InitialRating(i)]
    /\ max_workers = 1
    /\ batches = MakeBatches(candidates, ratings, batch_size)
    /\ futures = <<[Pending EXCEPT !.state = "running"]>>
    /\ all_judge_ratings = << >> /\ completed_batches = 0 /\ progress_calls = << >>
    /\ jpc = "batch" /\ reply_in = <<"none">>
    /\ judge_service = << >>
    /\ AppOff /\ ParseOff /\ CombineOff /\ ExtractOff /\ RunOff /\ RateOff

\* openai.chat.completions.create returns or raises
service_replies ==
    /\ jpc = "batch"
    /\ futures[1].state = "running"
    /\ reply_in = <<"none">>
    /\ reply_in' \in Replies(Len(batches[1].batch_candidates))
    /\ UNCHANGED <<batch_size, candidates, ratings, max_workers, batches, futures,
                   all_judge_ratings, completed_batches, progress_calls, jpc, judge_service,
                   avars, pvars, cvars, evars, rvars, rtvars>>

\* The attempt runs on the reply received; the reply of the last attempt stays visible
judge_batch_on_reply ==
    /\ jpc = "batch"
    /\ reply_in # <<"none">>
    /\ attempt_with(1, reply_in)
    /\ reply_in' = IF futures'[1].state = "done" THEN reply_in ELSE <<"none">>

NextBatch == service_replies \/ judge_batch_on_reply

SpecBatch == InitBatch /\ [][NextBatch]_vars

----------------------------------------------------------------------------
\* Properties of judge_all (Spec)

\* C1: judge_all returns exactly one JudgeRating per input candidate: as many
\* ratings as candidates, and each candidate_id carried by exactly one of them,
\* whatever the batch size, the worker count and the replies of the service.
C1_OnePerCandidate ==
    jpc = "returned" =>
        /\ Len(all_judge_ratings) = Len(candidates)
        /\ \A i \in 1..Len(candidates) :
              Cardinality({j \in 1..Len(all_judge_ratings) :
                  all_judge_ratings[j].candidate_id = candidates[i].candidate_id}) = 1

\* judge_all has returned for two batches, one that failed every attempt and one
\* that was answered at once
C1_Witness ==
    /\ jpc = "returned"
    /\ Len(batches) >= 2
    /\ \E b \in DOMAIN futures : futures[b].failed = max_retries
    /\ \E b \in DOMAIN futures :
          /\ futures[b].failed = 0
          /\ futures[b].outcome[2][1].score_adjustment = Str("adjusted")

\* C2: every JudgeRating judge_all returns has a non-null initial_score equal to
\* the score of the input Rating of the same candidate.
C2_InitialScoreIsInputScore ==
    jpc = "returned" =>
        \A j \in 1..Len(all_judge_ratings) : \A i \in 1..Len(ratings) :
            ratings[i].candidate_id = all_judge_ratings[j].candidate_id
                => all_judge_ratings[j].initial_score = Float(ratings[i].score)

\* C10: no exception escapes judge_all, whatever the service does on any attempt.
C10_NoExceptionEscapes == jpc # "raised"

\* judge_all has returned although every attempt of every one of several batches failed
C10_Witness ==
    /\ jpc = "returned"
    /\ Len(batches) >= 2
    /\ \A b \in DOMAIN futures : futures[b].failed = max_retries

----------------------------------------------------------------------------
\* Properties of _judge_batch (SpecBatch)

\* C7: when all 3 attempts of a batch have failed, the call returns one fallback
\* per member, a copy of the member's original Rating with
\* score = initial_score = the original score and the note about the failure.
C7_RetriesExhaustedFallback ==
    \A b \in DOMAIN futures :
        futures[b].failed = max_retries =>
            LET out == futures[b].outcome
                cands == batches[b].batch_candidates
                rats == batches[b].batch_ratings
            IN /\ futures[b].state = "done"
               /\ out[1] = "return"
               /\ Len(out[2]) = Len(cands)
               /\ \A i \in 1..Len(cands) :
                     /\ out[2][i].candidate_id = cands[i].candidate_id
                     /\ out[2][i].score = rats[i].score
                     /\ out[2][i].initial_score = Float(rats[i].score)
                     /\ out[2][i].strengths = rats[i].strengths
                     /\ out[2][i].weaknesses = rats[i].weaknesses
                     /\ out[2][i].rationale = rats[i].rationale
                     /\ out[2][i].score_adjustment = Str(NoteRetries)

\* a batch of two members whose third attempt has failed on an element that is no object
C7_Witness ==
    /\ jpc = "batch"
    /\ futures[1].failed = max_retries
    /\ Len(batches[1].batch_candidates) = 2
    /\ reply_in = <<"json", List(<<ElMinimal, ElNotDict>>)>>

\* C8: a bare array of k well-formed ratings for a batch of n members, k # n,
\* yields n JudgeRatings: the members up to position min(k, n) take the reply
\* element at their position, the members beyond k get a fallback with
\* score = initial_score = the score of their original Rating.
C8_CountMismatchAligned ==
    LET cands == batches[1].batch_candidates
        rats == batches[1].batch_ratings
        out == futures[1].outcome
        arr == reply_in[2][2]
    IN (/\ jpc = "batch"
        /\ futures[1].state = "done"
        /\ reply_in[1] = "json"
        /\ IsList(reply_in[2])
        /\ \A i \in 1..Len(arr) : arr[i] \in WellFormedElements
        /\ Len(arr) # Len(cands))
       => /\ out[1] = "return"
          /\ Len(out[2]) = Len(cands)
          /\ \A i \in 1..Len(cands) :
                /\ out[2][i].candidate_id = cands[i].candidate_id
                /\ IF i <= Len(arr)
                   THEN /\ out[2][i].score = AsFloat(Get(arr[i], "score"))[2]
                        /\ out[2][i].rationale = GetOrNone(arr[i], "rationale")
                        /\ out[2][i].score_adjustment = GetOrNone(arr[i], "score_adjustment")
                   ELSE /\ out[2][i].score = rats[i].score
                        /\ out[2][i].initial_score = Float(rats[i].score)

\* a batch of two members answered by an array of one well-formed rating
C8_Witness ==
    /\ jpc = "batch"
    /\ futures[1].state = "done"
    /\ Len(batches[1].batch_candidates) = 2
    /\ reply_in = <<"json", List(<<ElFull>>)>>

\* C9: for each object of the reply, a missing score, strengths, weaknesses or
\* rationale is taken from the original Rating of the candidate at that position
\* and a non-numeric score is replaced by the original score, the other members
\* keeping what the service returned for them.
C9_PerFieldBackfill ==
    LET cands == batches[1].batch_candidates
        rats == batches[1].batch_ratings
        out == futures[1].outcome
        arr == reply_in[2][2]
        Numeric(el) == Has(el, "score") /\ AsFloat(Get(el, "score")) # <<"error">>
    IN (/\ jpc = "batch"
        /\ futures[1].state = "done"
        /\ reply_in[1] = "json"
        /\ IsList(reply_in[2])
        /\ Len(arr) = Len(cands)
        /\ \A i \in 1..Len(arr) : IsDict(arr[i]) /\ ~Has(arr[i], "candidate_id"))
       => /\ out[1] = "return"
          /\ Len(out[2]) = Len(cands)
          /\ \A i \in 1..Len(cands) :
                /\ out[2][i].score = IF Numeric(arr[i])
                                     THEN AsFloat(Get(arr[i], "score"))[2]
                                     ELSE rats[i].score
                /\ ~Has(arr[i], "strengths") => out[2][i].strengths = rats[i].strengths
                /\ ~Has(arr[i], "weaknesses") => out[2][i].weaknesses = rats[i].weaknesses
                /\ ~Has(arr[i], "rationale") => out[2][i].rationale = rats[i].rationale

----------------------------------------------------------------------------
\* app.py, stages 5 to 7: extraction and rating fan-in, then the judge

PipelineBatchSize == 5
PipelineJudgeWorkers == 4

\* ExtractionAgent.extract(cv): the profile keeps the identity of the CV
ExtractedInfo(cv) ==
    [candidate_id |-> cv.candidate_id, file |-> cv.file,
     name |-> "Name " \o ToText(cv.candidate_id)]

\* RatingAgent.rate(info), when it returns: the Rating keeps the identity of the profile
RatingOf(info) == [InitialRating(info.candidate_id) EXCEPT !.file = info.file]

IdsOf(records) == {records[i].candidate_id : i \in 1..Len(records)}

\* One pass of the extraction loop: some finished future is collected
extract_collect(k) ==
    /\ stage = "extract"
    /\ k \in 1..Len(cleaned_cvs)
    /\ cleaned_cvs[k].candidate_id \notin IdsOf(infos)
    /\ infos' = Append(infos, ExtractedInfo(cleaned_cvs[k]))
    /\ UNCHANGED <<cleaned_cvs, stage, jvars, pvars, cvars, evars, rvars, rtvars>>

\* fut.result() of an extraction raises: the run leaves the stages
extract_raises(k) ==
    /\ stage = "extract"
    /\ k \in 1..Len(cleaned_cvs)
    /\ cleaned_cvs[k].candidate_id \notin IdsOf(infos)
    /\ stage' = "error"
    /\ UNCHANGED <<cleaned_cvs, infos, jvars, pvars, cvars, evars, rvars, rtvars>>

\* Extraction is complete: the rating futures are submitted
begin_rating ==
    /\ stage = "extract"
    /\ Len(infos) = Len(cleaned_cvs)
    /\ stage' = "rate"
    /\ UNCHANGED <<cleaned_cvs, infos, jvars, pvars, cvars, evars, rvars, rtvars>>

\* One pass of the rating loop: some finished future is collected
rate_collect(k) ==
    /\ stage = "rate"
    /\ k \in 1..Len(infos)
    /\ infos[k].candidate_id \notin IdsOf(ratings)
    /\ ratings' = Append(ratings, RatingOf(infos[k]))
    /\ UNCHANGED <<batch_size, candidates, max_workers, batches, futures,
                   all_judge_ratings, completed_batches, progress_calls, jpc, reply_in,
                   judge_service,
                   avars, pvars, cvars, evars, rvars, rtvars>>

\* fut.result() of a rating raises: the run leaves the stages
rate_raises(k) ==
    /\ stage = "rate"
    /\ k \in 1..Len(infos)
    /\ infos[k].candidate_id \notin IdsOf(ratings)
    /\ stage' = "error"
    /\ UNCHANGED <<cleaned_cvs, infos, jvars, pvars, cvars, evars, rvars, rtvars>>

\* judge = JudgeAgent(cleaned_jd, batch_size=5); judge.judge_all(infos, ratings, max_workers=4)
call_judge ==
    /\ stage = "rate"
    /\ Len(ratings) = Len(infos)
    /\ stage' = "judge"
    /\ batch_size' = PipelineBatchSize
    /\ max_workers' = PipelineJudgeWorkers
    /\ candidates' = infos
    /\ jpc' = "ready"
    /\ UNCHANGED <<ratings, batches, futures, all_judge_ratings, completed_batches, progress_calls,
                   reply_in, judge_service, cleaned_cvs, infos, pvars, cvars, evars, rvars, rtvars>>

InitPipeline ==
    /\ \E n \in 1..MaxDocs :
          cleaned_cvs = [i \in 1..n |-> [candidate_id |-> i, file |-> FileOf(i)]]
    /\ infos = << >>
    /\ stage = "extract"
    /\ JudgeOff /\ ParseOff /\ CombineOff /\ ExtractOff /\ RunOff /\ RateOff

NextPipeline ==
    \/ \E k \in 1..MaxDocs : extract_collect(k)
    \/ \E k \in 1..MaxDocs : extract_raises(k)
    \/ begin_rating
    \/ \E k \in 1..MaxDocs : rate_collect(k)
    \/ \E k \in 1..MaxDocs : rate_raises(k)
    \/ call_judge
    \/ JudgeNext

SpecPipeline == InitPipeline /\ [][NextPipeline]_vars

----------------------------------------------------------------------------
\* parser.py: CVParser

\* The values uuid4() can return: one never returned before
Uuids == 1..(MaxDocs + 1)
Uuid4Once(drawn) == {1}
Uuid4(drawn) == Uuids \ drawn

\* The record of a document that could not be read, without its flag
ErrorRecordUnflagged(file, id, message) ==
    [file |-> file, candidate_id |-> id, content |-> "Error parsing PDF: " \o message]

\* The record of a document that could not be read
ErrorRecord(file, id, message) ==
    [file |-> file, candidate_id |-> id, content |-> "Error parsing PDF: " \o message,
     error |-> TRUE]

\* _parse_single_pdf(fpath) drawing `id` from uuid4(): the record it returns
ParseSinglePdf(doc, id) ==
    IF doc.readable
    THEN [file |-> doc.file, candidate_id |-> id, content |-> doc.text]
    ELSE ErrorRecord(doc.file, id, doc.failure)

PRunning == {k \in DOMAIN pfutures : pfutures[k].state = "running"}

\* parse is entered: one future per PDF file is submitted to the pool
parse_begin ==
    /\ ppc = "ready"
    /\ pfutures' = [k \in 1..Len(pdf_files) |-> [state |-> "pending", outcome |-> <<"none">>]]
    /\ parsed' = << >>
    /\ ppc' = "pool"
    /\ UNCHANGED <<pdf_files, issued, parse_workers, jvars, avars, cvars, evars, rvars, rtvars>>

\* A free worker takes the oldest submitted document
parse_worker_takes(k) ==
    /\ ppc = "pool"
    /\ k \in DOMAIN pfutures
    /\ pfutures[k].state = "pending"
    /\ \A a \in DOMAIN pfutures : a < k => pfutures[a].state # "pending"
    /\ Cardinality(PRunning) < parse_workers
    /\ pfutures' = [pfutures EXCEPT ![k].state = "running"]
    /\ UNCHANGED <<pdf_files, issued, parsed, parse_workers, ppc, jvars, avars, cvars, evars,
                   rvars, rtvars>>

\* _parse_single_pdf runs to its return for document k
parse_single_pdf(k) ==
    /\ ppc = "pool"
    /\ k \in DOMAIN pfutures
    /\ pfutures[k].state = "running"
    /\ \E id \in Uuid4(issued) :
          /\ issued' = issued \cup {id}
          /\ pfutures' = [pfutures EXCEPT ![k] =
                 [state |-> "done", outcome |-> <<"return", ParseSinglePdf(pdf_files[k], id)>>]]
    /\ UNCHANGED <<pdf_files, parsed, parse_workers, ppc, jvars, avars, cvars, evars, rvars,
                   rtvars>>

\* One pass of the as_completed loop of parse: the record of a finished future
\* is appended; a future that raised gets an error record with an id of its own
parse_collect(k) ==
    /\ ppc = "pool"
    /\ k \in DOMAIN pfutures
    /\ pfutures[k].state = "done"
    /\ pfutures' = [pfutures EXCEPT ![k].state = "collected"]
    /\ IF pfutures[k].outcome[1] = "return"
       THEN /\ parsed' = Append(parsed, pfutures[k].outcome[2])
            /\ issued' = issued
       ELSE \E id \in Uuid4(issued) :
               /\ issued' = issued \cup {id}
               /\ parsed' = Append(parsed,
                      ErrorRecord(pdf_files[k].file, id, pfutures[k].outcome[2]))
    /\ UNCHANGED <<pdf_files, parse_workers, ppc, jvars, avars, cvars, evars, rvars, rtvars>>

\* Every future is collected: parse returns `parsed`
parse_return ==
    /\ ppc = "pool"
    /\ \A k \in DOMAIN pfutures : pfutures[k].state = "collected"
    /\ ppc' = "returned"
    /\ UNCHANGED <<pdf_files, issued, pfutures, parsed, parse_workers, jvars, avars, cvars,
                   evars, rvars, rtvars>>

\* SpecParse: CVParser(dir).parse(max_workers) on a directory of up to MaxDocs
\* PDF files, each readable or not
InitParse ==
    /\ \E n \in 0..MaxDocs : \E readable \in [1..n -> BOOLEAN] :
          pdf_files = [k \in 1..n |->
              [file |-> FileOf(k), readable |-> readable[k],
               text |-> "text of " \o FileOf(k), failure |-> "No /Root object"]]
    /\ parse_workers \in 1..MaxWorkers
    /\ issued = {} /\ pfutures = << >> /\ parsed = << >> /\ ppc = "ready"
    /\ JudgeOff /\ AppOff /\ CombineOff /\ ExtractOff /\ RunOff /\ RateOff

NextParse ==
    \/ parse_begin
    \/ \E k \in 1..MaxDocs : parse_worker_takes(k)
    \/ \E k \in 1..MaxDocs : parse_single_pdf(k)
    \/ \E k \in 1..MaxDocs : parse_collect(k)
    \/ parse_return

SpecParse == InitParse /\ [][NextParse]_vars

\* C5: parse returns exactly one record per PDF file, the candidate_ids are
\* generated ones and pairwise distinct, and one uuid was drawn per document,
\* for every worker count and every completion order.
C5_OneRecordPerDocument ==
    ppc = "returned" =>
        /\ Len(parsed) = Len(pdf_files)
        /\ \A k \in 1..Len(pdf_files) :
              Cardinality({i \in 1..Len(parsed) : parsed[i].file = pdf_files[k].file}) = 1
        /\ \A i \in 1..Len(parsed) : parsed[i].candidate_id \in issued
        /\ \A i, j \in 1..Len(parsed) :
              i # j => parsed[i].candidate_id # parsed[j].candidate_id
        /\ Cardinality(issued) = Len(pdf_files)

\* parse has returned for several documents collected out of submission order
C5_Witness ==
    /\ ppc = "returned"
    /\ Len(pdf_files) >= 2
    /\ parsed[1].file = pdf_files[2].file

\* C6: a document that cannot be read still gets its record, flagged as failed
\* and holding the diagnostic text, and the readable documents get their text
\* and no flag.
C6_FailedDocumentKept ==
    ppc = "returned" =>
        \A k \in 1..Len(pdf_files) :
            \E i \in 1..Len(parsed) :
                /\ parsed[i].file = pdf_files[k].file
                /\ IF pdf_files[k].readable
                   THEN /\ "error" \notin DOMAIN parsed[i]
                        /\ parsed[i].content = pdf_files[k].text
                   ELSE /\ "error" \in DOMAIN parsed[i]
                        /\ parsed[i].error
                        /\ parsed[i].content = "Error parsing PDF: " \o pdf_files[k].failure

\* parse has returned for one unreadable and one readable document
C6_Witness ==
    /\ ppc = "returned"
    /\ \E k \in 1..Len(pdf_files) : ~pdf_files[k].readable
    /\ \E k \in 1..Len(pdf_files) : pdf_files[k].readable

----------------------------------------------------------------------------
\* pandas, as combiner.py uses it.  A DataFrame is its column labels in order
\* and its rows, each a function from the labels to cells; a missing cell is NaN.

NaN == <<"NaN">>
KeyError == <<"raise", "KeyError">>

EmptyFrame == [cols |-> << >>, rows |-> << >>]

\* pd.DataFrame(list of dicts of the same keys)
DataFrame(dicts, keys) == IF Len(dicts) = 0 THEN EmptyFrame ELSE [cols |-> keys, rows |-> dicts]

ColSet(df) == {df.cols[i] : i \in 1..Len(df.cols)}

\* df.empty
IsEmpty(df) == Len(df.rows) = 0 \/ Len(df.cols) = 0

\* the elements of s at the indices in S, in order
AtIndices(s, S) ==
    LET f[n \in 0..Len(s)] ==
            IF n = 0 THEN << >>
            ELSE IF n \in S THEN Append(f[n - 1], s[n]) ELSE f[n - 1]
    IN f[Len(s)]

RECURSIVE Flatten(_)
Flatten(ss) == IF Len(ss) = 0 THEN << >> ELSE Head(ss) \o Flatten(Tail(ss))

\* df.rename(columns=mapping)
Rename(df, mapping) ==
    LET New(c) == IF c \in DOMAIN mapping THEN mapping[c] ELSE c
        Old(d) == CHOOSE c \in ColSet(df) : New(c) = d
    IN [cols |-> [i \in 1..Len(df.cols) |-> New(df.cols[i])],
        rows |-> [i \in 1..Len(df.rows) |->
                     [d \in {New(c) : c \in ColSet(df)} |-> df.rows[i][Old(d)]]]]

\* df with the last row of each key kept
DropDuplicatesKeepLast(df, key) ==
    IF Len(df.rows) = 0 \/ Len(df.cols) = 0 THEN df
    ELSE [df EXCEPT !.rows =
             AtIndices(df.rows, {i \in 1..Len(df.rows) :
                 \A j \in (i + 1)..Len(df.rows) : df.rows[j][key] # df.rows[i][key]})]

\* df.drop_duplicates(subset=key, keep='first'): an empty frame is returned as it is
DropDuplicates(df, key) ==
    IF IsEmpty(df) THEN df
    ELSE [df EXCEPT !.rows =
             AtIndices(df.rows, {i \in 1..Len(df.rows) :
                 \A j \in 1..(i - 1) : df.rows[j][key] # df.rows[i][key]})]

\* df.drop(columns=[col])
DropColumn(df, col) ==
    [cols |-> SelectSeq(df.cols, LAMBDA c : c # col),
     rows |-> [i \in 1..Len(df.rows) |-> [c \in ColSet(df) \ {col} |-> df.rows[i][c]]]]

\* left.merge(right, on=key, how=how, suffixes=(lsuf, rsuf)), how being "left"
\* or "outer"; the keys of an outer merge come out in ascending order
Merge(left, right, key, how, lsuf, rsuf) ==
    IF key \notin ColSet(left) \/ key \notin ColSet(right) THEN KeyError
    ELSE LET overlap == (ColSet(left) \cap ColSet(right)) \ {key}
             LName(c) == IF c \in overlap THEN c \o lsuf ELSE c
             RName(c) == IF c \in overlap THEN c \o rsuf ELSE c
             rcols == SelectSeq(right.cols, LAMBDA c : c # key)
             cols == [i \in 1..Len(left.cols) |-> LName(left.cols[i])]
                         \o [i \in 1..Len(rcols) |-> RName(rcols[i])]
             lnames == {LName(c) : c \in ColSet(left)}
             names == lnames \cup {RName(c) : c \in ColSet(right) \ {key}}
             \* l, r: a row index, or 0 for no row on that side
             Joined(l, r) ==
                 [d \in names |->
                     IF d = key
                     THEN IF l # 0 THEN left.rows[l][key] ELSE right.rows[r][key]
                     ELSE IF d \in lnames
                     THEN IF l # 0
                          THEN left.rows[l][CHOOSE c \in ColSet(left) : LName(c) = d]
                          ELSE NaN
                     ELSE IF r # 0
                          THEN right.rows[r][CHOOSE c \in ColSet(right) \ {key} : RName(c) = d]
                          ELSE NaN]
             RMatches(k) == AtIndices([i \in 1..Len(right.rows) |-> i],
                                {i \in 1..Len(right.rows) : right.rows[i][key] = k})
             LMatches(k) == AtIndices([i \in 1..Len(left.rows) |-> i],
                                {i \in 1..Len(left.rows) : left.rows[i][key] = k})
             ForLeft(l) ==
                 LET m == RMatches(left.rows[l][key])
                 IN IF Len(m) = 0 THEN <<Joined(l, 0)>>
                    ELSE [j \in 1..Len(m) |-> Joined(l, m[j])]
             lkeys == {left.rows[i][key] : i \in 1..Len(left.rows)}
             rkeys == {right.rows[i][key] : i \in 1..Len(right.rows)}
             keys == lkeys \cup rkeys
             Sorted == CHOOSE q \in [1..Cardinality(keys) -> keys] :
                           \A i, j \in 1..Cardinality(keys) : i < j => q[i] < q[j]
             ForKey(k) ==
                 IF k \in lkeys
                 THEN Flatten([j \in 1..Len(LMatches(k)) |-> ForLeft(LMatches(k)[j])])
                 ELSE [j \in 1..Len(RMatches(k)) |-> Joined(0, RMatches(k)[j])]
         IN <<"return",
              [cols |-> cols,
               rows |-> IF how = "left"
                        THEN Flatten([l \in 1..Len(left.rows) |-> ForLeft(l)])
                        ELSE Flatten([n \in 1..Cardinality(keys) |-> ForKey(Sorted[n])])]>>

\* df[col] = df[col].fillna(value) for each col of `cols` that df has
FillNa(df, cols, value) ==
    [df EXCEPT !.rows =
        [i \in 1..Len(df.rows) |->
            [c \in ColSet(df) |->
                IF c \in cols /\ df.rows[i][c] \in {NaN, None} THEN value ELSE df.rows[i][c]]]]

\* pd.to_numeric(cell, errors='coerce')
ToNumeric(cell) ==
    IF cell[1] = "float" THEN cell
    ELSE IF cell[1] = "numstr" THEN Float(cell[2])
    ELSE NaN

\* df[col] = pd.to_numeric(df[col], errors='coerce')
CoerceColumn(df, col) ==
    [df EXCEPT !.rows =
        [i \in 1..Len(df.rows) |-> [df.rows[i] EXCEPT ![col] = ToNumeric(@)]]]

\* df left in the order it has
Unsorted(df, col) == {df}

\* The frames df.sort_values(by=col, ascending=False, na_position='last') can
\* return: rows of equal value in any order
SortedDescending(df, col) ==
    LET n == Len(df.rows)
        Before(a, b) == IF a = NaN THEN b = NaN ELSE (b = NaN \/ a[2] >= b[2])
        perms == {q \in [1..n -> 1..n] : \A i, j \in 1..n : i # j => q[i] # q[j]}
    IN {[df EXCEPT !.rows = [i \in 1..n |-> df.rows[q[i]]]] :
           q \in {q \in perms : \A i, j \in 1..n :
                     i < j => Before(df.rows[q[i]][col], df.rows[q[j]][col])}}

\* df[column_order]
Reordered(df, column_order) == [df EXCEPT !.cols = column_order]

\* f"{x:.1f}".replace('.', ',') if pd.notna(x) else "AUSENTE", after to_numeric
FormatScore(cell) ==
    LET x == ToNumeric(cell)
    IN IF x = NaN THEN Str("AUSENTE") ELSE Str(ToText(x[2]) \o ",0")

FormatColumns(df, cols) ==
    [df EXCEPT !.rows =
        [i \in 1..Len(df.rows) |->
            [c \in ColSet(df) |->
                IF c \in cols THEN FormatScore(df.rows[i][c]) ELSE df.rows[i][c]]]]

----------------------------------------------------------------------------
\* combiner.py: combine

\* c.model_dump() of a CandidateInfo, a CandidateRating and a JudgeRating
DumpInfo(c) == [candidate_id |-> c.candidate_id, file |-> Str(c.file), name |-> Str(c.name)]
InfoKeys == <<"candidate_id", "file", "name">>

DumpRating(r) ==
    [candidate_id |-> r.candidate_id, file |-> Str(r.file), score |-> Float(r.score),
     strengths |-> r.strengths, weaknesses |-> r.weaknesses, rationale |-> r.rationale]
RatingKeys == <<"candidate_id", "file", "score", "strengths", "weaknesses", "rationale">>

DumpJudge(r) ==
    [candidate_id |-> r.candidate_id, file |-> Str(r.file), score |-> Float(r.score),
     strengths |-> r.strengths, weaknesses |-> r.weaknesses, rationale |-> r.rationale,
     initial_score |-> IF r.initial_score = None THEN NaN ELSE r.initial_score,
     score_adjustment |-> r.score_adjustment]
JudgeKeys == <<"candidate_id", "file", "score", "strengths", "weaknesses", "rationale",
               "initial_score", "score_adjustment">>

column_mapping ==
    [name |-> "Nome", email |-> "Email", phone |-> "Telefone", uf |-> "UF",
     city |-> "Cidade", languages |-> "Idiomas",
     programming_languages |-> "Linguagens de Programação",
     frameworks |-> "Frameworks", years_experience |-> "Anos de Experiência",
     education |-> "Educação", summary |-> "Resumo"]

judge_column_mapping ==
    [score |-> "Pontuação Final", strengths |-> "Pontos Fortes",
     weaknesses |-> "Pontos Fracos", rationale |-> "Justificativa",
     initial_score |-> "Pontuação Inicial", score_adjustment |-> "Ajuste de Pontuação"]

original_column_mapping ==
    [score |-> "Pontuação Inicial Original", strengths |-> "Pontos Fortes Original",
     weaknesses |-> "Pontos Fracos Original", rationale |-> "Justificativa Original"]

rating_column_mapping ==
    [score |-> "Pontuação Inicial", strengths |-> "Pontos Fortes",
     weaknesses |-> "Pontos Fracos", rationale |-> "Justificativa"]

FilledColumns ==
    {"Pontuação Final", "Pontuação Inicial", "Pontos Fortes", "Pontos Fracos",
     "Justificativa", "Ajuste de Pontuação"}

ScoreColumns == {"Pontuação Final", "Pontuação Inicial"}

DropIfPresent(df, col) == IF col \in ColSet(df) THEN DropColumn(df, col) ELSE df

\* The `if judge_ratings:` branch: rating_df, or the KeyError of the merge with
\* the original ratings
JudgeRatingFrame(ratings_in, judge_ratings) ==
    LET rating_df == Rename(DataFrame([i \in 1..Len(judge_ratings) |->
                                DumpJudge(judge_ratings[i])], JudgeKeys),
                            judge_column_mapping)
        initial_rating_df == Rename(DataFrame([i \in 1..Len(ratings_in) |->
                                        DumpRating(ratings_in[i])], RatingKeys),
                                    original_column_mapping)
        merged == Merge(rating_df, initial_rating_df, "candidate_id", "left",
                        "", "_original")
    IN IF merged = KeyError THEN KeyError
       ELSE <<"return",
              DropIfPresent(DropIfPresent(DropDuplicates(merged[2], "candidate_id"),
                                          "file"), "file_original")>>

\* The else branch: rating_df built from the ratings alone
InitialRatingFrame(ratings_in) ==
    DropIfPresent(
        DropDuplicates(Rename(DataFrame([i \in 1..Len(ratings_in) |->
                                  DumpRating(ratings_in[i])], RatingKeys),
                              rating_column_mapping),
                       "candidate_id"),
        "file")

\* What follows the outer merge: fill, drop candidate_id, sort by the score
\* column, order the columns, format the scores
Finished(merged, score_col) ==
    LET filled == DropIfPresent(FillNa(merged, FilledColumns, Str("AUSENTE")),
                                "candidate_id")
        sorted == IF score_col \in ColSet(filled)
                  THEN SortedDescending(CoerceColumn(filled, score_col), score_col)
                  ELSE {filled}
        Order(df) ==
            LET first == <<"file">>
                    \o (IF score_col \in ColSet(df) THEN <<score_col>> ELSE << >>)
                    \o (IF "Pontuação Inicial" \in ColSet(df)
                           /\ "Pontuação Inicial" # score_col
                        THEN <<"Pontuação Inicial">> ELSE << >>)
            IN first \o SelectSeq(df.cols,
                            LAMBDA c : \A i \in 1..Len(first) : first[i] # c)
    IN {FormatColumns(Reordered(df, Order(df)), ScoreColumns) : df \in sorted}

\* The outcomes combine(infos, ratings, judge_ratings) can have: <<"return", df>>
\* or the KeyError it raises; judge_ratings = << >> is both None and []
combine(infos_in, ratings_in, judge_ratings) ==
    LET info_df == Rename(DropDuplicates(DataFrame([i \in 1..Len(infos_in) |->
                                             DumpInfo(infos_in[i])], InfoKeys),
                                         "candidate_id"),
                          column_mapping)
        built == IF Len(judge_ratings) > 0
                 THEN JudgeRatingFrame(ratings_in, judge_ratings)
                 ELSE <<"return", InitialRatingFrame(ratings_in)>>
        score_col == IF Len(judge_ratings) > 0
                     THEN "Pontuação Final" ELSE "Pontuação Inicial"
    IN IF built = KeyError THEN {KeyError}
       ELSE LET rating_df == IF IsEmpty(built[2])
                             THEN [cols |-> <<"candidate_id">>, rows |-> << >>]
                             ELSE built[2]
                merged == Merge(info_df, rating_df, "candidate_id", "outer",
                                "", "_rating")
            IN IF merged = KeyError THEN {KeyError}
               ELSE {<<"return", df>> : df \in Finished(merged[2], score_col)}

\* The JudgeRating records combine is handed for candidate c: one the judge
\* produced (v = 1) and one a fallback produced (v = 2)
JudgedRating(c, v) ==
    IF v = 1
    THEN [FallbackRating(CandidateInfo(c), InitialRating(c), "") EXCEPT
             !.score = 10 - c, !.initial_score = None, !.score_adjustment = None]
    ELSE FallbackRating(CandidateInfo(c), InitialRating(c), NoteRetries)

combine_call ==
    /\ c_out = <<"pending">>
    /\ c_out' \in combine(c_infos, c_ratings, c_judge)
    /\ UNCHANGED <<c_infos, c_ratings, c_judge, jvars, avars, pvars, evars, rvars, rtvars>>

\* The i-th record of a list handed to combine, of candidate c: records of one
\* candidate at different positions differ, all scores are pairwise different
InfoAt(c, i) == [CandidateInfo(c) EXCEPT !.name = @ \o " (" \o ToText(i) \o ")"]
RatingAt(c, i) == [InitialRating(c) EXCEPT !.score = @ + 10 * (i - 1)]
JudgedAt(c, v, i) == [JudgedRating(c, v) EXCEPT !.score = @ + 10 * (i - 1)]

\* SpecCombine: combine on up to MaxRecords profiles, ratings and judge ratings
\* of candidates 1..MaxIds, in any order, with repeats
InitCombine ==
    /\ \E n \in 0..MaxRecords : \E ids \in [1..n -> 1..MaxIds] :
          c_infos = [i \in 1..n |-> InfoAt(ids[i], i)]
    /\ \E n \in 0..MaxRecords : \E ids \in [1..n -> 1..MaxIds] :
          c_ratings = [i \in 1..n |-> RatingAt(ids[i], i)]
    /\ \E n \in 0..MaxRecords : \E ids \in [1..n -> 1..MaxIds] :
       \E v \in 1..2 :
          c_judge = [i \in 1..n |-> JudgedAt(ids[i], v, i)]
    /\ c_out = <<"pending">>
    /\ JudgeOff /\ AppOff /\ ParseOff /\ ExtractOff /\ RunOff /\ RateOff

NextCombine == combine_call

SpecCombine == InitCombine /\ [][NextCombine]_vars

\* C4: whenever the profiles are not empty and the ratings and judge ratings are
\* of candidates among the profiles, combine returns a table with exactly one
\* row per distinct candidate_id of the profiles.
C4_OneRowPerCandidate ==
    (/\ c_out \notin {<<"off">>, <<"pending">>}
     /\ Len(c_infos) > 0
     /\ IdsOf(c_ratings) \subseteq IdsOf(c_infos)
     /\ IdsOf(c_judge) \subseteq IdsOf(c_infos))
        => /\ c_out[1] = "return"
           /\ Len(c_out[2].rows) = Cardinality(IdsOf(c_infos))
           /\ \A c \in IdsOf(c_infos) :
                 Cardinality({i \in 1..Len(c_out[2].rows) :
                     c_out[2].rows[i]["file"] = Str(FileOf(c))}) = 1

\* The rating records combine reads the scores from: the judge ratings when
\* there are any, else the ratings
ScoredRecords == IF Len(c_judge) > 0 THEN c_judge ELSE c_ratings
SelectedScoreColumn == IF Len(c_judge) > 0 THEN "Pontuação Final" ELSE "Pontuação Inicial"
AnalysisColumns == {"Pontos Fortes", "Pontos Fracos", "Justificativa"}

\* The indices of the output rows of candidate c
RowsOf(c) == {i \in 1..Len(c_out[2].rows) : c_out[2].rows[i]["file"] = Str(FileOf(c))}

\* C11: in the table combine returns, every profile with no rating (no judge
\* rating when judge ratings are given) has a row, and in it the score,
\* strengths, weaknesses and rationale columns exist and hold "AUSENTE";
\* also when there are no ratings at all.
C11_MissingMarkedAusente ==
    c_out[1] = "return" =>
        \A c \in IdsOf(c_infos) \ IdsOf(ScoredRecords) :
            /\ RowsOf(c) # {}
            /\ \A i \in RowsOf(c) :
                  \A col \in AnalysisColumns \cup {SelectedScoreColumn} :
                      /\ col \in ColSet(c_out[2])
                      /\ c_out[2].rows[i][col] = Str("AUSENTE")

\* The first record of candidate c among the records the scores come from
FirstScored(c) ==
    ScoredRecords[CHOOSE i \in 1..Len(ScoredRecords) :
        /\ ScoredRecords[i].candidate_id = c
        /\ \A j \in 1..(i - 1) : ScoredRecords[j].candidate_id # c]

\* The number shown in row i of the output's score column, -1 for "AUSENTE"
ShownScore(i) ==
    LET cell == c_out[2].rows[i][SelectedScoreColumn]
        scores == {ScoredRecords[k].score : k \in 1..Len(ScoredRecords)}
    IN IF cell = Str("AUSENTE") THEN -1
       ELSE CHOOSE x \in scores : cell = FormatScore(Float(x))

\* C12: the returned rows show the judge's score when there are judge ratings
\* and the rater's otherwise, in descending order with "AUSENTE" last; when
\* every profile is scored, row k is the candidate with k - 1 candidates of a
\* higher score, whatever the order of the inputs.
C12_SortedByScoreDescending ==
    (c_out[1] = "return" /\ Len(ScoredRecords) > 0) =>
        LET rows == c_out[2].rows
        IN /\ SelectedScoreColumn \in ColSet(c_out[2])
           /\ \A i \in 1..Len(rows) :
                 \/ rows[i][SelectedScoreColumn] = Str("AUSENTE")
                 \/ \E k \in 1..Len(ScoredRecords) :
                       rows[i][SelectedScoreColumn] = FormatScore(Float(ScoredRecords[k].score))
           /\ \A c \in IdsOf(c_infos) \cap IdsOf(ScoredRecords) : \A i \in RowsOf(c) :
                 rows[i][SelectedScoreColumn] = FormatScore(Float(FirstScored(c).score))
           /\ \A i, j \in 1..Len(rows) : i < j => ShownScore(i) >= ShownScore(j)
           /\ IdsOf(c_infos) = IdsOf(ScoredRecords) =>
                 \A c \in IdsOf(c_infos) :
                     RowsOf(c) = {1 + Cardinality({d \in IdsOf(c_infos) :
                                      FirstScored(d).score > FirstScored(c).score})}

\* combine returned two scored rows, the higher score second among the profiles
C12_Witness ==
    /\ c_out[1] = "return"
    /\ Len(c_infos) = 2 /\ Len(ScoredRecords) = 2
    /\ IdsOf(c_infos) = IdsOf(ScoredRecords) /\ Cardinality(IdsOf(c_infos)) = 2
    /\ Len(c_out[2].rows) = 2
    /\ FirstScored(c_infos[2].candidate_id).score > FirstScored(c_infos[1].candidate_id).score
    /\ c_out[2].rows[1]["file"] = Str(c_infos[2].file)

\* The labels a filename column can have after the merges: 'file' and its
\* suffixed forms
FileColumns == {"file", "file_original", "file_rating"}

\* C13: the returned table has exactly one filename column, the first one;
\* the second column is the selected score column; 'Pontuação Inicial' is the
\* third when it is not the selected one; the remaining columns follow, each
\* once.
C13_ColumnOrder ==
    c_out[1] = "return" =>
        LET cols == c_out[2].cols
        IN /\ Len(cols) >= 2
           /\ cols[1] = "file"
           /\ \A i \in 2..Len(cols) : cols[i] \notin FileColumns
           /\ cols[2] = SelectedScoreColumn
           /\ SelectedScoreColumn # "Pontuação Inicial" =>
                 Len(cols) >= 3 /\ cols[3] = "Pontuação Inicial"
           /\ \A i, j \in 1..Len(cols) : i # j => cols[i] # cols[j]
           /\ \E i \in 3..Len(cols) : cols[i] = "Nome"

\* The first record of candidate c in a list of records
FirstOf(records, c) ==
    records[CHOOSE i \in 1..Len(records) :
        /\ records[i].candidate_id = c
        /\ \A j \in 1..(i - 1) : records[j].candidate_id # c]

\* C14: the returned table has one row per candidate_id of the profiles and of
\* the records the scores come from, however often an id is repeated in the
\* profiles, ratings or judge ratings, and each row carries the values of the
\* first profile, the first scored record and (with judge ratings) the first
\* rating of its candidate.
C14_FirstOfDuplicatesKept ==
    c_out[1] = "return" =>
        LET rows == c_out[2].rows
        IN /\ Len(rows) = Cardinality(IdsOf(c_infos) \cup IdsOf(ScoredRecords))
           /\ \A c \in IdsOf(c_infos) :
                 /\ Cardinality(RowsOf(c)) = 1
                 /\ \A i \in RowsOf(c) :
                       /\ rows[i]["Nome"] = Str(FirstOf(c_infos, c).name)
                       /\ c \in IdsOf(ScoredRecords) =>
                             rows[i][SelectedScoreColumn]
                                 = FormatScore(Float(FirstOf(ScoredRecords, c).score))
                       /\ (Len(c_judge) > 0 /\ c \in IdsOf(c_judge) \cap IdsOf(c_ratings)) =>
                             rows[i]["Pontuação Inicial Original"]
                                 = Float(FirstOf(c_ratings, c).score)

\* combine returned on profiles and scored records that each repeat an id
C14_Witness ==
    /\ c_out[1] = "return"
    /\ Len(c_infos) = 2 /\ Cardinality(IdsOf(c_infos)) = 1
    /\ Len(ScoredRecords) = 2 /\ IdsOf(ScoredRecords) = IdsOf(c_infos)
    /\ Len(c_out[2].rows) = 1

----------------------------------------------------------------------------
\* agent_extraction.py: ExtractionAgent.extract

PyInt(n) == <<"int", n>>
IsStr(v) == v[1] \in {"str", "numstr"}

\* The text of uf and city is a sequence of characters, so that strip, upper
\* and title act on it; the letters are those the replies below use
LowerLetters == <<"a", "c", "i", "j", "l", "o", "p", "r", "s", "x">>
UpperLetters == <<"A", "C", "I", "J", "L", "O", "P", "R", "S", "X">>
IsLower(ch) == \E i \in 1..Len(LowerLetters) : LowerLetters[i] = ch
IsUpper(ch) == \E i \in 1..Len(UpperLetters) : UpperLetters[i] = ch
ToUpper(ch) ==
    IF IsLower(ch) THEN UpperLetters[CHOOSE i \in 1..Len(LowerLetters) : LowerLetters[i] = ch]
    ELSE ch
ToLower(ch) ==
    IF IsUpper(ch) THEN LowerLetters[CHOOSE i \in 1..Len(UpperLetters) : UpperLetters[i] = ch]
    ELSE ch

RECURSIVE LStrip(_)
LStrip(t) == IF Len(t) > 0 /\ Head(t) = " " THEN LStrip(Tail(t)) ELSE t
RECURSIVE RStrip(_)
RStrip(t) == IF Len(t) > 0 /\ t[Len(t)] = " " THEN RStrip(SubSeq(t, 1, Len(t) - 1)) ELSE t
\* t.strip()
Strip(t) == RStrip(LStrip(t))
\* t.upper()
Upper(t) == [i \in 1..Len(t) |-> ToUpper(t[i])]
\* t.title(): a letter after a non-letter is upper-cased, every other one lower-cased
Title(t) ==
    [i \in 1..Len(t) |->
        IF i = 1 \/ ~(IsLower(t[i - 1]) \/ IsUpper(t[i - 1])) THEN ToUpper(t[i])
        ELSE ToLower(t[i])]

brazilian_states ==
    {<<"A", "C">>, <<"A", "L">>, <<"A", "P">>, <<"A", "M">>, <<"B", "A">>, <<"C", "E">>,
     <<"D", "F">>, <<"E", "S">>, <<"G", "O">>, <<"M", "A">>, <<"M", "T">>, <<"M", "S">>,
     <<"M", "G">>, <<"P", "A">>, <<"P", "B">>, <<"P", "R">>, <<"P", "E">>, <<"P", "I">>,
     <<"R", "J">>, <<"R", "N">>, <<"R", "S">>, <<"R", "O">>, <<"R", "R">>, <<"S", "C">>,
     <<"S", "P">>, <<"S", "E">>, <<"T", "O">>}

\* bool(v) of None and of a str whose text is a sequence of characters
Truthy(v) == v # None /\ Len(v[2]) > 0

\* str(v) of a scalar
StrOf(v) == IF v[1] = "int" THEN Str(ToText(v[2])) ELSE v

\* list(d.keys())
KeysOf(d) == List([i \in 1..Len(d[2]) |-> Str(d[2][i][1])])

\* Only a null or absent field made a list
WithListFieldOnlyNone(data, field) ==
    IF GetOrNone(data, field) = None THEN Put(data, field, List(<< >>)) ELSE data

\* One of the three blocks "ensure it's always a list"
WithListField(data, field) ==
    LET v == GetOrNone(data, field)
    IN IF IsList(v) THEN data
       ELSE IF v = None THEN Put(data, field, List(<< >>))
       ELSE IF IsDict(v) THEN Put(data, field, KeysOf(v))
       ELSE Put(data, field, List(<<StrOf(v)>>))

\* years_experience given as a str: the first run of digits in it, or None
WithYears(data) ==
    LET v == GetOrNone(data, "years_experience")
    IN IF v[1] = "numstr" THEN Put(data, "years_experience", PyInt(v[2]))
       ELSE IF v[1] = "str" THEN Put(data, "years_experience", None)
       ELSE data

WithUf(data) ==
    LET v == GetOrNone(data, "uf")
    IN IF Truthy(v)
       THEN LET uf == Upper(Strip(v[2]))
            IN IF uf \in brazilian_states THEN Put(data, "uf", Str(uf))
               ELSE Put(data, "uf", None)
       ELSE data

WithCity(data) ==
    LET v == GetOrNone(data, "city")
    IN IF Truthy(v)
       THEN LET city == Strip(v[2])
            IN IF Len(city) > 0 THEN Put(data, "city", Str(Title(city)))
               ELSE Put(data, "city", None)
       ELSE data

NamePlaceholder == "Desconhecido"
EmailPlaceholder == "Email não fornecido"

\* data as it is
WithoutDefaults(data) == data

WithDefaults(data) ==
    LET named == IF GetOrNone(data, "name") = None
                 THEN Put(data, "name", Str(NamePlaceholder)) ELSE data
    IN IF GetOrNone(named, "email") = None
       THEN Put(named, "email", Str(EmailPlaceholder)) ELSE named

\* pydantic's validation of the fields of CandidateInfo; <<"error">> when it fails
AsStr(v) == IF IsStr(v) THEN v ELSE <<"error">>
AsOptInt(v) == IF v = None \/ v[1] = "int" THEN v ELSE <<"error">>
AsStrList(v) ==
    IF IsList(v) /\ \A i \in 1..Len(v[2]) : IsStr(v[2][i]) THEN v ELSE <<"error">>
\* a field with default_factory=list: the default only when the key is absent
AsDefaultedStrList(data, field) ==
    IF Has(data, field) THEN AsStrList(Get(data, field)) ELSE List(<< >>)

\* CandidateInfo(candidate_id=..., file=..., **data): the record of the fields
\* models.py declares (keys it does not declare are ignored), or the exception
CandidateInfoFromData(cv_data, data) ==
    IF Has(data, "candidate_id") \/ Has(data, "file")
    THEN [exc |-> "TypeError"]
    ELSE IF ~Has(data, "name") \/ ~Has(data, "email")
    THEN [exc |-> "ValidationError"]
    ELSE LET value ==
                 [candidate_id |-> cv_data.candidate_id,
                  file |-> cv_data.file,
                  name |-> AsStr(Get(data, "name")),
                  email |-> AsStr(Get(data, "email")),
                  phone |-> AsOptStr(GetOrNone(data, "phone")),
                  languages |-> AsDefaultedStrList(data, "languages"),
                  programming_languages |-> AsDefaultedStrList(data, "programming_languages"),
                  frameworks |-> AsDefaultedStrList(data, "frameworks"),
                  years_experience |-> AsOptInt(GetOrNone(data, "years_experience")),
                  education |-> AsOptStr(GetOrNone(data, "education")),
                  summary |-> AsOptStr(GetOrNone(data, "summary"))]
         IN IF \E f \in DOMAIN value \ {"candidate_id", "file"} : value[f] = <<"error">>
            THEN [exc |-> "ValidationError"]
            ELSE [exc |-> "none", value |-> value]

\* extract(cv_data) on a reply of the service: <<"return", info>> or <<"raise", e>>
extract(cv_data, reply) ==
    IF reply[1] = "raise" THEN <<"raise", "APIError">>
    ELSE IF reply[1] = "no_content" THEN <<"raise", "ValueError">>
    ELSE IF reply[1] = "not_json" THEN <<"raise", "JSONDecodeError">>
    ELSE IF ~IsDict(reply[2]) THEN <<"raise", "AttributeError">>
    ELSE LET data == WithDefaults(WithCity(WithUf(WithYears(
                         WithListField(WithListField(WithListField(reply[2],
                             "languages"), "programming_languages"), "frameworks")))))
             made == CandidateInfoFromData(cv_data, data)
         IN IF made.exc = "none" THEN <<"return", made.value>>
            ELSE <<"raise", made.exc>>

\* The replies of the service to an extraction call
Absent == <<"absent">>

FieldOrder ==
    <<"name", "email", "phone", "uf", "city", "languages", "programming_languages",
      "frameworks", "years_experience", "education", "summary">>

\* A reply with every field as the prompt asks for it
WellFormedFields ==
    [name |-> Str("Alice"), email |-> Str("alice@example.com"), phone |-> None,
     uf |-> Str(<<" ", "s", "p">>),
     city |-> Str(<<"r", "i", "o", " ", "c", "l", "a", "r", "o">>),
     languages |-> List(<<Str("English"), Str("Spanish")>>),
     programming_languages |-> List(<<Str("Python")>>),
     frameworks |-> List(<< >>),
     years_experience |-> PyInt(5), education |-> None, summary |-> Str("Engineer")]

ListShapes ==
    {Absent, None, List(<< >>), List(<<Str("English"), Str("Spanish")>>),
     List(<<PyInt(1)>>),
     Dict(<< <<"English", Str("fluent")>>, <<"Spanish", Str("basic")>> >>),
     Str("English"), PyInt(3)}

FieldShapes ==
    [name |-> {Absent, None, Str("Alice"), PyInt(7)},
     email |-> {Absent, None, Str("alice@example.com"), PyInt(7)},
     phone |-> {Absent, None, Str("+55 11 5555")},
     uf |-> {Absent, None, Str(<< >>), Str(<<" ", "s", "p">>), Str(<<"R", "J">>),
             Str(<<"x", "x">>), Str(<<"s", "a", "o">>)},
     city |-> {Absent, None, Str(<<" ", " ">>),
               Str(<<"r", "i", "o", " ", "c", "l", "a", "r", "o">>),
               Str(<<" ", "S", "A", "O", " ", "J", "O", "S", "A">>)},
     languages |-> ListShapes,
     programming_languages |-> ListShapes,
     frameworks |-> ListShapes,
     years_experience |-> {Absent, None, NumStr(5), Str("many"), PyInt(5)},
     education |-> {Absent, None, Str("BSc")},
     summary |-> {Absent, None, Str("Engineer")}]

\* The JSON object with the given value per field, absent fields left out
ReplyObject(fields) ==
    Dict([i \in 1..Len(SelectSeq(FieldOrder, LAMBDA f : fields[f] # Absent)) |->
             LET f == SelectSeq(FieldOrder, LAMBDA g : fields[g] # Absent)[i]
             IN <<f, fields[f]>>])

FieldNames == {FieldOrder[i] : i \in 1..Len(FieldOrder)}

\* A field with one of its shapes
FieldVariants == UNION {{<<f, o>> : o \in FieldShapes[f]} : f \in FieldNames}

\* Replies: no reply, an empty one, text that is not JSON, JSON that is not an
\* object, an object repeating the file name, and the objects that differ from
\* the well-formed one in at most two fields
ExtractReplies ==
    {<<"raise">>, <<"no_content">>, <<"not_json">>, <<"json", List(<< >>)>>,
     <<"json", Put(ReplyObject(WellFormedFields), "file", Str("cv_1.pdf"))>>}
    \cup {<<"json", ReplyObject([[WellFormedFields EXCEPT ![a[1]] = a[2]]
                                     EXCEPT ![b[1]] = b[2]])>> :
             a \in FieldVariants, b \in FieldVariants}

extract_service_replies ==
    /\ e_out = <<"pending">>
    /\ e_reply = <<"none">>
    /\ e_reply' \in ExtractReplies
    /\ UNCHANGED <<e_cv, e_out, jvars, avars, pvars, cvars, rvars, rtvars>>

extract_on_reply ==
    /\ e_out = <<"pending">>
    /\ e_reply # <<"none">>
    /\ e_out' = extract(e_cv, e_reply)
    /\ UNCHANGED <<e_cv, e_reply, jvars, avars, pvars, cvars, rvars, rtvars>>

\* SpecExtract: one call of ExtractionAgent.extract on a cleaned CV
InitExtract ==
    /\ \E k \in 1..MaxDocs :
          e_cv = [candidate_id |-> k, file |-> FileOf(k), content |-> "text of " \o FileOf(k)]
    /\ e_reply = <<"none">>
    /\ e_out = <<"pending">>
    /\ JudgeOff /\ AppOff /\ ParseOff /\ CombineOff /\ RunOff /\ RateOff

NextExtract == extract_service_replies \/ extract_on_reply

SpecExtract == InitExtract /\ [][NextExtract]_vars

ListFields == {"languages", "programming_languages", "frameworks"}

\* The value field f has in the reply, None when the reply leaves it out
Replied(f) == GetOrNone(e_reply[2], f)

RepliedObject == e_reply[1] = "json" /\ IsDict(e_reply[2]) /\ ~Has(e_reply[2], "file")

\* C15: the profile extract returns has the region code and the city of the
\* reply: a valid code upper-cased, an invalid one null, the city title-cased.
C15_RegionAndCityKept ==
    e_out[1] = "return" =>
        /\ "uf" \in DOMAIN e_out[2]
        /\ "city" \in DOMAIN e_out[2]
        /\ Replied("uf") = Str(<<" ", "s", "p">>) => e_out[2]["uf"] = Str(<<"S", "P">>)
        /\ Replied("uf") = Str(<<"x", "x">>) => e_out[2]["uf"] = None
        /\ Replied("city") = Str(<<"r", "i", "o", " ", "c", "l", "a", "r", "o">>) =>
              e_out[2]["city"] = Str(<<"R", "i", "o", " ", "C", "l", "a", "r", "o">>)

C17_NameAndEmailPresent ==
    (e_out \notin {<<"off">>, <<"pending">>} /\ RepliedObject) =>
        /\ e_out[1] = "return" =>
              /\ e_out[2]["name"] # None /\ e_out[2]["name"][1] = "str"
              /\ e_out[2]["email"] # None /\ e_out[2]["email"][1] = "str"
              /\ Replied("name") = None => e_out[2]["name"] = Str("Desconhecido")
              /\ Replied("email") = None => e_out[2]["email"] = Str("Email não fornecido")
              /\ Replied("name") # None => e_out[2]["name"] = Replied("name")
              /\ Replied("email") # None => e_out[2]["email"] = Replied("email")
        /\ (/\ \A f \in FieldNames \ {"name", "email"} : Replied(f) = WellFormedFields[f]
            /\ Replied("name") \in {None, WellFormedFields["name"]}
            /\ Replied("email") \in {None, WellFormedFields["email"]})
              => e_out[1] = "return"

\* extract returned on a reply with no name and a null email
C17_Witness ==
    /\ RepliedObject /\ e_out[1] = "return"
    /\ ~Has(e_reply[2], "name")
    /\ Has(e_reply[2], "email") /\ Get(e_reply[2], "email") = None
    /\ e_out[2]["name"] = Str("Desconhecido")
    /\ e_out[2]["email"] = Str("Email não fornecido")

----------------------------------------------------------------------------
\* agent_rating.py: RatingAgent.rate

\* The attributes of the profile that RatingAgent.rate reads to build its prompt
PromptAttributes ==
    {"name", "email", "phone", "uf", "city", "languages", "programming_languages",
     "frameworks", "years_experience", "education", "summary"}

\* obj['score'] = float(obj['score']), 0.0 when float() raises ValueError or TypeError
FloatOrZero(v) ==
    IF v[1] \in {"float", "numstr", "int"} THEN Float(v[2]) ELSE Float(0)

\* The reply object after the score was made numeric
WithNumericScore(obj) ==
    IF Has(obj, "score") THEN Put(obj, "score", FloatOrZero(Get(obj, "score"))) ELSE obj

\* CandidateRating(candidate_id=..., file=..., **obj): the record of the fields
\* models.py declares, or the exception the call raises
CandidateRatingFromData(candidate, obj) ==
    IF Has(obj, "candidate_id") \/ Has(obj, "file")
    THEN [exc |-> "TypeError"]
    ELSE IF ~Has(obj, "score")
    THEN [exc |-> "ValidationError"]
    ELSE LET value ==
                 [candidate_id |-> candidate.candidate_id,
                  file |-> candidate.file,
                  score |-> AsFloat(Get(obj, "score")),
                  strengths |-> AsOptStr(GetOrNone(obj, "strengths")),
                  weaknesses |-> AsOptStr(GetOrNone(obj, "weaknesses")),
                  rationale |-> AsOptStr(GetOrNone(obj, "rationale"))]
         IN IF \E f \in {"score", "strengths", "weaknesses", "rationale"} :
                  value[f] = <<"error">>
            THEN [exc |-> "ValidationError"]
            ELSE [exc |-> "none", value |-> value]

\* rate(candidate) on a reply of the service: <<"return", rating>> or <<"raise", e>>.
\* The prompt is built, reading the attributes of the profile, before the call.
rate(candidate, reply) ==
    IF ~(PromptAttributes \subseteq DOMAIN candidate) THEN <<"raise", "AttributeError">>
    ELSE IF reply[1] = "raise" THEN <<"raise", "APIError">>
    ELSE IF reply[1] = "no_content" THEN <<"raise", "ValueError">>
    ELSE IF reply[1] = "not_json" THEN <<"raise", "JSONDecodeError">>
    ELSE IF ~IsDict(reply[2]) THEN <<"raise", "TypeError">>
    ELSE LET made == CandidateRatingFromData(candidate, WithNumericScore(reply[2]))
         IN IF made.exc = "none" THEN <<"return", made.value>>
            ELSE <<"raise", made.exc>>

\* The shapes of the fields of a rating reply
RatingFieldOrder == <<"score", "strengths", "weaknesses", "rationale">>

WellFormedRating ==
    [score |-> Float(85), strengths |-> Str("Python"), weaknesses |-> Str("SQL"),
     rationale |-> Str("fits")]

TextShapes ==
    {Str("Python"), List(<<Str("Python"), Str("Go")>>), List(<< >>), None, Absent}

RatingFieldShapes ==
    [score |-> {Float(85), NumStr(70), PyInt(9), Str("alto"), None, Absent},
     strengths |-> TextShapes,
     weaknesses |-> TextShapes,
     rationale |-> {Str("fits"), None, Absent}]

RatingObject(fields) ==
    Dict([i \in 1..Len(SelectSeq(RatingFieldOrder, LAMBDA f : fields[f] # Absent)) |->
             LET f == SelectSeq(RatingFieldOrder, LAMBDA g : fields[g] # Absent)[i]
             IN <<f, fields[f]>>])

\* Replies: no reply, an empty one, text that is not JSON, JSON that is not an
\* object, an object repeating the file name, and every combination of the
\* field shapes
RateReplies ==
    {<<"raise">>, <<"no_content">>, <<"not_json">>, <<"json", List(<< >>)>>,
     <<"json", Put(RatingObject(WellFormedRating), "file", Str("cv_1.pdf"))>>}
    \cup {<<"json", RatingObject(fields)>> :
             fields \in [score : RatingFieldShapes.score,
                         strengths : RatingFieldShapes.strengths,
                         weaknesses : RatingFieldShapes.weaknesses,
                         rationale : RatingFieldShapes.rationale]}

\* The profile extract returns for CV k on a well-formed reply
ProfileOf(k) ==
    extract([candidate_id |-> k, file |-> FileOf(k), content |-> "text of " \o FileOf(k)],
            <<"json", ReplyObject(WellFormedFields)>>)[2]

\* An object with the attributes of the profile and also uf and city
WithRegion(info) ==
    [f \in DOMAIN info \cup {"uf", "city"} |-> IF f \in DOMAIN info THEN info[f] ELSE None]

rate_service_replies ==
    /\ rt_out = <<"pending">>
    /\ rt_reply = <<"none">>
    /\ rt_reply' \in RateReplies
    /\ UNCHANGED <<rt_candidate, rt_out, jvars, avars, pvars, cvars, evars, rvars>>

rate_on_reply ==
    /\ rt_out = <<"pending">>
    /\ rt_reply # <<"none">>
    /\ rt_out' = rate(rt_candidate, rt_reply)
    /\ UNCHANGED <<rt_candidate, rt_reply, jvars, avars, pvars, cvars, evars, rvars>>

\* SpecRate: one call of RatingAgent.rate, on a CandidateInfo of models.py or on
\* an object that also has the two attributes models.py leaves out
InitRate ==
    /\ \E k \in 1..MaxDocs : rt_candidate \in {ProfileOf(k), WithRegion(ProfileOf(k))}
    /\ rt_reply = <<"none">>
    /\ rt_out = <<"pending">>
    /\ JudgeOff /\ AppOff /\ ParseOff /\ CombineOff /\ ExtractOff /\ RunOff

NextRate == rate_service_replies \/ rate_on_reply

SpecRate == InitRate /\ [][NextRate]_vars

\* The reply is an object with a score and without the identity keys, in which
\* field f is an array
ArrayReplied(f) ==
    /\ rt_reply[1] = "json" /\ IsDict(rt_reply[2])
    /\ Has(rt_reply[2], "score")
    /\ IsList(GetOrNone(rt_reply[2], f))

\* C24: when the reply gives strengths or weaknesses as an array, rate returns
\* a rating in which that field is one string.
C24_ArraysJoined ==
    \A f \in {"strengths", "weaknesses"} :
        (rt_out \notin {<<"off">>, <<"pending">>} /\ ArrayReplied(f))
        => (rt_out[1] = "return" /\ IsStr(rt_out[2][f]))

----------------------------------------------------------------------------
\* app.py: one run of the pipeline, from the rerun that finds start_pipeline set

StoppedByUser == "Stopped by user"
NoPdfFound == "No PDF files found in uploaded files"
TreatedAsRuntimeError(e) == TRUE
IsRuntimeError(e) == e \in {StoppedByUser, NoPdfFound}

\* ss.last_run after a run that left through a handler: neither handler nor
\* the finally clause assigns it
CachePartialAfterFailure(cache) == <<"run", "partial">>
CacheAfterFailure(cache) == cache

CleanWorkers == 8
ExtractWorkers == 12
RateWorkers == 12

\* max_workers of the pool of a fan-out stage over n inputs
StageWorkers(stg, n) ==
    Min(IF stg = "clean" THEN CleanWorkers
        ELSE IF stg = "extract" THEN ExtractWorkers ELSE RateWorkers, n)

\* clean_cv(cv_data) when the service answers: file and cleaned content, and the
\* candidate_id put back
CleanCvLosingId(cv_data) ==
    [file |-> cv_data.file, content |-> "cleaned " \o cv_data.content, candidate_id |-> 0]
CleanCv(cv_data) ==
    [file |-> cv_data.file, content |-> "cleaned " \o cv_data.content,
     candidate_id |-> cv_data.candidate_id]

\* rater.rate(info), the service failing or answering as asked
RateCall(info) ==
    {rate(info, reply) : reply \in {<<"raise">>, <<"json", RatingObject(WellFormedRating)>>}}

\* What the call of one unit of work of a stage can give
UnitResults(stg, input) ==
    IF stg = "clean" THEN {<<"raise", "APIError">>, <<"return", CleanCv(input)>>}
    ELSE IF stg = "extract"
    THEN {extract(input, reply) :
             reply \in {<<"raise">>, <<"not_json">>,
                        <<"json", ReplyObject(WellFormedFields)>>}}
    ELSE RateCall(input)

\* futures = {ex.submit(call, x): x for x in inputs}
Submitted(stg, inputs) ==
    [k \in 1..Len(inputs) |->
        [stage |-> stg, input |-> inputs[k], state |-> "submitted", result |-> <<"none">>]]

UnitsIn(state) == {k \in 1..Len(units) : units[k].state = state}

user_clicks_stop ==
    /\ r_pc \notin {"off", "ended"}
    /\ processing /\ ~stop_requested
    /\ stop_requested' = TRUE
    /\ stop_clicked' = TRUE
    /\ UNCHANGED <<processing, start_pipeline, last_run, job_description, uploaded_files,
                   r_pc, saved, parsed_cvs, r_cleaned_cvs, r_infos, r_ratings, units,
                   raised, outcome, service_failed, jvars, avars, pvars, cvars, evars, rtvars>>

\* if ss.start_pipeline: the inputs are checked
run_starts ==
    /\ r_pc = "start" /\ start_pipeline
    /\ IF ~(job_description /\ Len(uploaded_files) > 0)
       THEN /\ processing' = FALSE /\ start_pipeline' = FALSE
            /\ outcome' = "rejected"
            /\ r_pc' = "ended"
       ELSE /\ r_pc' = "save"
            /\ UNCHANGED <<processing, start_pipeline, outcome>>
    /\ UNCHANGED <<stop_requested, last_run, job_description, uploaded_files, saved,
                   parsed_cvs, r_cleaned_cvs, r_infos, r_ratings, units, raised,
                   stop_clicked, service_failed, jvars, avars, pvars, cvars, evars, rtvars>>

\* Stage 1, one pass of the loop over the uploaded files
save_file ==
    /\ r_pc = "save"
    /\ IF stop_requested
       THEN /\ raised' = StoppedByUser
            /\ r_pc' = "unwinding"
            /\ UNCHANGED saved
       ELSE /\ saved' = saved + 1
            /\ r_pc' = IF saved + 1 = Len(uploaded_files) THEN "clean_jd" ELSE "save"
            /\ UNCHANGED raised
    /\ UNCHANGED <<processing, start_pipeline, stop_requested, last_run, job_description,
                   uploaded_files, parsed_cvs, r_cleaned_cvs, r_infos, r_ratings, units,
                   outcome, stop_clicked, service_failed, jvars, avars, pvars, cvars, evars,
                   rtvars>>

\* Stage 2: CleaningAgent().clean on the job description
clean_job_description ==
    /\ r_pc = "clean_jd"
    /\ \E answered \in BOOLEAN :
          IF answered
          THEN r_pc' = "parse" /\ UNCHANGED <<raised, service_failed>>
          ELSE r_pc' = "unwinding" /\ raised' = "APIError" /\ service_failed' = TRUE
    /\ UNCHANGED <<processing, start_pipeline, stop_requested, last_run, job_description,
                   uploaded_files, saved, parsed_cvs, r_cleaned_cvs, r_infos, r_ratings,
                   units, outcome, stop_clicked, jvars, avars, pvars, cvars, evars, rtvars>>

\* [f for f in os.listdir(tmpdir) if f.lower().endswith('.pdf')]: the files
\* written by stage 1 whose name has the PDF suffix
run_pdf_files == SelectSeq(SubSeq(uploaded_files, 1, saved), LAMBDA f : f.pdf)

\* Stage 3: the PDF files of tmpdir are parsed (here the records come in the
\* order of the files; SpecParse explores every completion order); then
\* stage 4 submits clean_cv for each record
parse_cvs ==
    /\ r_pc = "parse"
    /\ IF run_pdf_files = << >>
       THEN /\ raised' = NoPdfFound
            /\ r_pc' = "unwinding"
            /\ UNCHANGED <<parsed_cvs, units>>
       ELSE /\ parsed_cvs' = [i \in 1..Len(run_pdf_files) |->
                                  ParseSinglePdf(run_pdf_files[i], i)]
            /\ units' = Submitted("clean", parsed_cvs')
            /\ r_pc' = "clean"
            /\ UNCHANGED raised
    /\ UNCHANGED <<processing, start_pipeline, stop_requested, last_run, job_description,
                   uploaded_files, saved, r_cleaned_cvs, r_infos, r_ratings, outcome,
                   stop_clicked, service_failed, jvars, avars, pvars, cvars, evars, rtvars>>

\* A worker of the pool takes the oldest unit still queued; the pool also does
\* so while the with-block is left on an exception (shutdown(wait=True))
unit_starts(k) ==
    /\ r_pc \in {"clean", "extract", "rate", "unwinding"}
    /\ k \in UnitsIn("submitted")
    /\ \A a \in UnitsIn("submitted") : k <= a
    /\ Cardinality(UnitsIn("running")) < StageWorkers(units[k].stage, Len(units))
    /\ units' = [units EXCEPT ![k].state = "running"]
    /\ UNCHANGED <<processing, start_pipeline, stop_requested, last_run, job_description,
                   uploaded_files, r_pc, saved, parsed_cvs, r_cleaned_cvs, r_infos,
                   r_ratings, raised, outcome, stop_clicked, service_failed,
                   jvars, avars, pvars, cvars, evars, rtvars>>

\* The call of unit k returns or raises; the future keeps the outcome
unit_finishes(k) ==
    /\ r_pc \in {"clean", "extract", "rate", "unwinding"}
    /\ k \in UnitsIn("running")
    /\ \E result \in UnitResults(units[k].stage, units[k].input) :
          /\ units' = [units EXCEPT ![k].state = "finished", ![k].result = result]
          /\ service_failed' = (service_failed \/ result = <<"raise", "APIError">>)
    /\ UNCHANGED <<processing, start_pipeline, stop_requested, last_run, job_description,
                   uploaded_files, r_pc, saved, parsed_cvs, r_cleaned_cvs, r_infos,
                   r_ratings, raised, outcome, stop_clicked, jvars, avars, pvars, cvars,
                   evars, rtvars>>

\* What stage 4 keeps of a finished unit: the cleaned record, or the original
\* one when clean_cv raised
CleanedOrOriginal(unit) ==
    IF unit.result[1] = "return" THEN unit.result[2] ELSE unit.input

\* as_completed(futures) is exhausted with unit k: every other unit has been
\* taken before
FirstTaken(k) == TRUE
AllTaken(k) ==
    UnitsIn("finished") = {k} /\ UnitsIn("submitted") = {} /\ UnitsIn("running") = {}

\* as_completed yields a future once: unit k is not yielded again
YieldedAgain(k) == units
Yielded(k) == [units EXCEPT ![k].state = "taken"]

\* One pass of a fan-in loop (for fut in as_completed(futures)) on unit k: the
\* stop is polled, then the result is taken; after the last unit the next
\* stage submits its own
collect(k) ==
    /\ r_pc \in {"clean", "extract", "rate"}
    /\ k \in UnitsIn("finished")
    /\ LET all_taken == AllTaken(k)
           taken == Yielded(k)
       IN IF stop_requested
          THEN /\ raised' = StoppedByUser
               /\ r_pc' = "unwinding"
               /\ UNCHANGED <<units, r_cleaned_cvs, r_infos, r_ratings>>
          ELSE IF r_pc = "clean"
          THEN /\ r_cleaned_cvs' = Append(r_cleaned_cvs, CleanedOrOriginal(units[k]))
               /\ units' = IF all_taken THEN Submitted("extract", r_cleaned_cvs') ELSE taken
               /\ r_pc' = IF all_taken THEN "extract" ELSE "clean"
               /\ UNCHANGED <<raised, r_infos, r_ratings>>
          ELSE IF units[k].result[1] = "raise"
          THEN /\ raised' = units[k].result[2]
               /\ r_pc' = "unwinding"
               /\ UNCHANGED <<units, r_cleaned_cvs, r_infos, r_ratings>>
          ELSE IF r_pc = "extract"
          THEN /\ r_infos' = Append(r_infos, units[k].result[2])
               /\ units' = IF all_taken THEN Submitted("rate", r_infos') ELSE taken
               /\ r_pc' = IF all_taken THEN "rate" ELSE "extract"
               /\ UNCHANGED <<raised, r_cleaned_cvs, r_ratings>>
          ELSE /\ r_ratings' = Append(r_ratings, units[k].result[2])
               /\ units' = taken
               /\ r_pc' = IF all_taken THEN "judge" ELSE "rate"
               /\ UNCHANGED <<raised, r_cleaned_cvs, r_infos>>
    /\ UNCHANGED <<processing, start_pipeline, stop_requested, last_run, job_description,
                   uploaded_files, saved, parsed_cvs, outcome, stop_clicked,
                   service_failed, jvars, avars, pvars, cvars, evars, rtvars>>

\* The exception reaches the handlers once the pool has run every unit it was
\* given: RuntimeError is shown as a warning, any other exception as an error,
\* and the finally clause resets the three flags
run_handles ==
    /\ r_pc = "unwinding"
    /\ UnitsIn("submitted") = {} /\ UnitsIn("running") = {}
    /\ outcome' = IF raised = StoppedByUser THEN "stopped"
                  ELSE IF IsRuntimeError(raised) THEN "warning" ELSE "error"
    /\ processing' = FALSE /\ start_pipeline' = FALSE /\ stop_requested' = FALSE
    /\ last_run' = CacheAfterFailure(last_run)
    /\ r_pc' = "ended"
    /\ UNCHANGED <<job_description, uploaded_files, saved, parsed_cvs,
                   r_cleaned_cvs, r_infos, r_ratings, units, raised, stop_clicked,
                   service_failed, jvars, avars, pvars, cvars, evars, rtvars>>

\* The name of the k-th uploaded file; the uploader's type filter is by
\* extension and not a guarantee, so the run may be handed names without ".pdf"
UploadName(k, named_pdf) == IF named_pdf THEN FileOf(k) ELSE "cv_" \o ToText(k) \o ".txt"

\* The rerun after "Process CVs" was clicked: the uploaded files all carry the
\* PDF suffix, or none does
InitRun ==
    /\ processing = TRUE /\ start_pipeline = TRUE /\ stop_requested = FALSE
    /\ last_run = <<"None">>
    /\ job_description \in BOOLEAN
    /\ \E n \in 0..MaxUploads : \E readable \in [1..n -> BOOLEAN] :
       \E named_pdf \in BOOLEAN :
          uploaded_files = [k \in 1..n |->
              [file |-> UploadName(k, named_pdf), pdf |-> named_pdf,
               readable |-> readable[k],
               text |-> "text of " \o UploadName(k, named_pdf),
               failure |-> "No /Root object"]]
    /\ r_pc = "start" /\ saved = 0
    /\ parsed_cvs = << >> /\ r_cleaned_cvs = << >> /\ r_infos = << >> /\ r_ratings = << >>
    /\ units = << >> /\ raised = "none" /\ outcome = "none"
    /\ stop_clicked = FALSE /\ service_failed = FALSE
    /\ JudgeOff /\ AppOff /\ ParseOff /\ CombineOff /\ ExtractOff /\ RateOff

NextRun ==
    \/ user_clicks_stop
    \/ run_starts
    \/ save_file
    \/ clean_job_description
    \/ parse_cvs
    \/ \E k \in 1..MaxUploads : unit_starts(k)
    \/ \E k \in 1..MaxUploads : unit_finishes(k)
    \/ \E k \in 1..MaxUploads : collect(k)
    \/ run_handles

SpecRun == InitRun /\ [][NextRun]_vars

\* The records of stage 3 that carry the error flag
FailedIntake == {i \in 1..Len(parsed_cvs) : "error" \in DOMAIN parsed_cvs[i]}

\* C18: a run over 3 documents of which one cannot be read, in which the
\* service answers every call and nobody asks for a stop, ends with 3 intake
\* records of which 1 is marked failed, without an exception having been
\* raised, and with its result stored.
C18_FailedIntakeReported ==
    ( /\ r_pc = "ended"
      /\ job_description
      /\ Len(uploaded_files) = 3
      /\ Cardinality({k \in 1..3 : ~uploaded_files[k].readable}) = 1
      /\ ~service_failed /\ ~stop_clicked )
    => /\ Len(parsed_cvs) = 3
       /\ Cardinality(FailedIntake) = 1
       /\ raised = "none"
       /\ last_run # <<"None">>

\* C19: a run in which the user asked for a stop while it was in progress (and
\* in which the service never failed) ends in the "Stopped by user" condition
\* and stores no result.
C19_StopEndsRunAsStopped ==
    (r_pc = "ended" /\ outcome # "rejected" /\ stop_clicked /\ ~service_failed)
    => (outcome = "stopped" /\ raised = StoppedByUser /\ last_run = <<"None">>)

\* C20: once a fan-in loop has raised "Stopped by user", no unit of work that
\* is still queued begins executing.
C20_NoStartAfterStopObserved ==
    [][raised = StoppedByUser =>
          \A k \in UnitsIn("submitted") : units'[k].state = "submitted"]_vars

FailedUnits ==
    {k \in 1..Len(units) : units[k].stage \in {"extract", "rate"}
                           /\ units[k].result[1] = "raise"}

\* C22: once the extraction or the rating call of one candidate has raised, no
\* unit of a later stage is ever submitted and no result is stored; the run
\* ends with the flags reset, through the error handler unless a stop request
\* was seen first.
C22_FailureAbortsRun ==
    \A k \in FailedUnits :
        /\ \A j \in 1..Len(units) : units[j].stage = units[k].stage
        /\ r_pc \in {units[k].stage, "unwinding", "ended"}
        /\ units[k].stage = "extract" => r_ratings = << >>
        /\ last_run = <<"None">>
        /\ r_pc = "ended" =>
              /\ ~processing /\ ~start_pipeline
              /\ outcome \in {"error", "stopped"}
              /\ ~stop_clicked => outcome = "error"

C22_Witness ==
    /\ r_pc = "ended" /\ outcome = "error"
    /\ \E k \in FailedUnits :
          /\ units[k].stage = "extract"
          /\ raised = units[k].result[2]
          /\ raised = "JSONDecodeError"
    /\ \E j \in 1..Len(units) : units[j].result[1] = "return"

\* C23: the units in the pool all belong to one stage, and a stage has units
\* only when the stage before it has handed over one collected result per
\* input: cleaning after every file was saved and parsed, extraction after
\* every cleaning result was collected, rating after every profile was collected.
C23_StagesInSequence ==
    \A k \in 1..Len(units) :
        /\ \A j \in 1..Len(units) : units[j].stage = units[k].stage
        /\ Len(units) = Len(parsed_cvs)
        /\ Len(parsed_cvs) = Len(uploaded_files) /\ saved = Len(uploaded_files)
        /\ units[k].stage = "clean" => (r_infos = << >> /\ r_ratings = << >>)
        /\ units[k].stage = "extract" =>
              (Len(r_cleaned_cvs) = Len(parsed_cvs) /\ r_ratings = << >>)
        /\ units[k].stage = "rate" =>
              (Len(r_cleaned_cvs) = Len(parsed_cvs) /\ Len(r_infos) = Len(parsed_cvs))

C23_Witness ==
    /\ Len(units) = 3
    /\ units[1].stage = "rate" /\ units[1].state = "running"
    /\ units[3].state = "submitted"
    /\ Len(r_infos) = 3

\* The cleaned records that carry the identity of record rec
CleanedFor(rec) ==
    {j \in 1..Len(r_cleaned_cvs) :
        /\ r_cleaned_cvs[j].candidate_id = rec.candidate_id
        /\ r_cleaned_cvs[j].file = rec.file}

\* C25: every intake record whose cleaning was collected has exactly one
\* cleaned record, with its candidate_id and file name; the text is the
\* cleaned one when the call returned and the intake text when it raised; and
\* when the stage is over there is one cleaned record per intake record.
C25_OneCleanedRecordPerIntake ==
    /\ r_pc = "clean" =>
          /\ Len(r_cleaned_cvs) = Cardinality(UnitsIn("taken"))
          /\ \A k \in UnitsIn("taken") :
                /\ Cardinality(CleanedFor(units[k].input)) = 1
                /\ \A j \in CleanedFor(units[k].input) :
                      r_cleaned_cvs[j].content =
                          IF units[k].result[1] = "raise" THEN units[k].input.content
                          ELSE "cleaned " \o units[k].input.content
    /\ r_pc \in {"extract", "rate"} =>
          /\ Len(r_cleaned_cvs) = Len(parsed_cvs)
          /\ \A i \in 1..Len(parsed_cvs) :
                /\ Cardinality(CleanedFor(parsed_cvs[i])) = 1
                /\ \A j \in CleanedFor(parsed_cvs[i]) :
                      r_cleaned_cvs[j].content \in
                          {parsed_cvs[i].content, "cleaned " \o parsed_cvs[i].content}

C25_Witness ==
    /\ r_pc = "extract" /\ Len(parsed_cvs) = 3
    /\ \E a, b \in 1..3 :
          /\ \E j \in CleanedFor(parsed_cvs[a]) :
                r_cleaned_cvs[j].content = parsed_cvs[a].content
          /\ \E j \in CleanedFor(parsed_cvs[b]) :
                r_cleaned_cvs[j].content = "cleaned " \o parsed_cvs[b].content
    /\ r_cleaned_cvs[1].candidate_id # parsed_cvs[1].candidate_id

\* C26: in one _judge_batch call the service is called at most max_retries
\* times, each call after the first follows a failed attempt and a wait of
\* 2^attempt seconds (1, then 2), no wait follows the attempt that ends the
\* call, and the call ends with the first attempt that does not fail.
C26_BoundedRetriesWithBackoff ==
    LET f == futures[1]
    IN jpc = "batch" =>
          /\ f.calls <= max_retries
          /\ f.slept = [i \in 1..Len(f.slept) |-> 2 ^ (i - 1)]
          /\ f.state = "running" => (f.failed = f.calls /\ Len(f.slept) = f.calls)
          /\ f.state = "done" =>
                /\ Len(f.slept) = f.calls - 1
                /\ f.failed \in {f.calls - 1, f.calls}
                /\ f.failed = f.calls => f.calls = max_retries

C26_Witness ==
    /\ jpc = "batch"
    /\ futures[1].state = "done"
    /\ futures[1].calls = 3 /\ futures[1].failed = 2
    /\ futures[1].slept = <<1, 2>>

\* The list-valued fields of a reply object, by position
ListValued(obj) == {i \in 1..Len(obj[2]) : IsList(obj[2][i][2])}

\* A non-empty list of objects that name a file
RatingList(v) ==
    IsList(v) /\ Len(v[2]) > 0 /\ \A i \in 1..Len(v[2]) : IsDict(v[2][i]) /\ Has(v[2][i], "file")

\* The four shapes: a bare array, an object with an array under "ratings", an
\* object with "file" and "score", an object with exactly one list-valued field
\* holding ratings
OneOfFourShapes(v) ==
    \/ IsList(v)
    \/ /\ IsDict(v)
       /\ \/ Has(v, "ratings") /\ IsList(Get(v, "ratings"))
          \/ Has(v, "file") /\ Has(v, "score")
          \/ /\ Cardinality(ListValued(v)) = 1
             /\ \A i \in ListValued(v) : RatingList(v[2][i][2])

\* C27: the attempt that ends a _judge_batch call on a JSON reply takes a
\* ratings array out of the reply exactly when the reply has one of the four
\* shapes, and a reply of any other shape makes that attempt a failed one.
C27_AcceptedShapes ==
    (jpc = "batch" /\ futures[1].state = "done" /\ reply_in[1] = "json")
    => /\ OneOfFourShapes(reply_in[2]) <=> RatingsArray(reply_in[2])[1] = "ok"
       /\ ~OneOfFourShapes(reply_in[2]) => futures[1].failed = futures[1].calls

----------------------------------------------------------------------------
\* SpecCrash: judge_all on the two lists as the pipeline hands them over (the
\* ratings in any order, file names shared or not), a batch worker possibly
\* raising outside the try block of _judge_batch

\* The call of batch b raises an exception that _judge_batch does not handle
\* itself (any subclass of Exception raised while the prompt is built)
judge_batch_raises(b) ==
    /\ jpc = "pool"
    /\ b \in DOMAIN futures
    /\ futures[b].state = "running" /\ futures[b].calls = 0
    /\ futures' = [futures EXCEPT ![b].state = "done",
                                  ![b].outcome = <<"raise", "MemoryError">>]
    /\ UNCHANGED <<batch_size, candidates, ratings, max_workers, batches,
                   all_judge_ratings, completed_batches, progress_calls, jpc, reply_in,
                   judge_service,
                   avars, pvars, cvars, evars, rvars, rtvars>>

\* The orders in which n ratings can have been appended
Orders(n) == {q \in [1..n -> 1..n] : \A i, j \in 1..n : i # j => q[i] # q[j]}

InitCrash ==
    /\ batch_size \in 1..MaxBatch
    /\ max_workers \in 1..MaxWorkers
    /\ \E n \in 1..MaxN : \E shared \in BOOLEAN : \E order \in Orders(n) :
          LET file(i) == IF shared THEN FileOf(1) ELSE FileOf(i)
          IN /\ candidates = [i \in 1..n |-> [CandidateInfo(i) EXCEPT !.file = file(i)]]
             /\ ratings = [i \in 1..n |->
                              [InitialRating(order[i]) EXCEPT !.file = file(order[i])]]
    /\ batches = << >> /\ futures = << >> /\ all_judge_ratings = << >>
    /\ completed_batches = 0 /\ progress_calls = << >> /\ jpc = "ready" /\ reply_in = <<"none">>
    /\ judge_service = << >>
    /\ AppOff /\ ParseOff /\ CombineOff /\ ExtractOff /\ RunOff /\ RateOff

NextCrash ==
    \/ JudgeNext
    \/ \E b \in 1..MaxN : judge_batch_raises(b)

SpecCrash == InitCrash /\ [][NextCrash]_vars

\* The Rating of `ratings` made for candidate c
OwnRating(c) == ratings[CHOOSE i \in 1..Len(ratings) : ratings[i].candidate_id = c.candidate_id]

\* C28: when judge_all has returned, every member of a batch whose worker
\* raised has exactly one JudgeRating, whose score and initial_score are the
\* score of that candidate's own Rating.
C28_CrashedBatchGetsOwnFallback ==
    jpc = "returned" =>
        \A b \in DOMAIN futures :
            futures[b].outcome[1] = "raise" =>
                \A i \in 1..Len(batches[b].batch_candidates) :
                    LET c == batches[b].batch_candidates[i]
                        got == {j \in 1..Len(all_judge_ratings) :
                                   all_judge_ratings[j].candidate_id = c.candidate_id}
                    IN /\ Cardinality(got) = 1
                       /\ \A j \in got :
                             /\ all_judge_ratings[j].score = OwnRating(c).score
                             /\ all_judge_ratings[j].initial_score = Float(OwnRating(c).score)

\* C29: once judge_all has cut its batches there are ceil(N / B) of them, batch
\* b holds the candidates (and the ratings) at positions (b-1)*B+1 .. min(b*B, N)
\* in input order, so each has B members except possibly the last and every
\* position falls in exactly one batch; and never more than max_workers batch
\* calls are running.
C29_ContiguousBatchesBoundedPool ==
    LET N == Len(candidates)
        B == batch_size
    IN /\ jpc # "ready" =>
             /\ Len(batches) = (N + B - 1) \div B
             /\ \A b \in 1..Len(batches) :
                   /\ batches[b].batch_candidates =
                          SubSeq(candidates, (b - 1) * B + 1, Min(b * B, N))
                   /\ batches[b].batch_ratings =
                          SubSeq(ratings, (b - 1) * B + 1, Min(b * B, N))
                   /\ b < Len(batches) => Len(batches[b].batch_candidates) = B
                   /\ Len(batches[b].batch_candidates) \in 1..B
             /\ \A i \in 1..N :
                   Cardinality({b \in 1..Len(batches) :
                       \E k \in 1..Len(batches[b].batch_candidates) :
                           batches[b].batch_candidates[k] = candidates[i]}) = 1
       /\ Cardinality(Running) <= max_workers

C29_Witness ==
    /\ jpc = "pool" /\ max_workers = 1
    /\ Len(candidates) = 2 /\ batch_size = 1 /\ Len(batches) = 2
    /\ futures[1].state = "running" /\ futures[2].state = "pending"

----------------------------------------------------------------------------
\* Fan-in of the stages

\* The list the running stage of the pipeline appends to
StageResults ==
    IF r_pc = "clean" THEN r_cleaned_cvs ELSE IF r_pc = "extract" THEN r_infos ELSE r_ratings

\* What the fan-in loop appends for a unit it has taken
Contribution(unit) ==
    IF unit.stage = "clean" THEN CleanedOrOriginal(unit) ELSE unit.result[2]

\* The positions of list `results` that hold a result of the candidate with this id
EntriesOf(results, id) == {j \in 1..Len(results) : results[j].candidate_id = id}

----------------------------------------------------------------------------
\* The outcome of a run

\* C31: a run that ended through a handler is reported as stopped only if the
\* user asked for a stop, and every run that ended on another failure (no PDF
\* found, a unit of work that raised, a service error) is reported as an error.
C31_StoppedDistinctFromErrors ==
    (r_pc = "ended" /\ outcome # "rejected")
    => /\ outcome = "stopped" => stop_clicked
       /\ raised # StoppedByUser => outcome = "error"

----------------------------------------------------------------------------
\* The progress reported by judge_all

\* The batches whose future the as_completed loop has been handed
Collected == {b \in DOMAIN futures : futures[b].state = "collected"}

\* C32: judge_all calls the progress callback once per batch handed over by the
\* pool, with the fractions 1/T, 2/T, ... in that order (T the number of
\* batches); each lies in [0,1], each is greater than the one before, and when
\* judge_all has returned there are T of them, the last being 1; this for every
\* completion order and whether batches failed or not.
C32_ProgressOncePerBatch ==
    jpc \in {"pool", "raised", "returned"} =>
        LET T == Len(batches)
        IN /\ Len(progress_calls) = Cardinality(Collected)
           /\ \A i \in 1..Len(progress_calls) :
                 /\ progress_calls[i] = Fraction(i, T)
                 /\ progress_calls[i].den > 0
                 /\ 0 <= progress_calls[i].num /\ progress_calls[i].num <= progress_calls[i].den
                 /\ i > 1 => progress_calls[i - 1].num * progress_calls[i].den
                                 < progress_calls[i].num * progress_calls[i - 1].den
           /\ jpc = "returned" =>
                 /\ Len(progress_calls) = T
                 /\ T > 0 => progress_calls[T].num = progress_calls[T].den

C32_Witness ==
    /\ jpc = "returned"
    /\ Len(batches) = 2
    /\ progress_calls = <<Fraction(1, 2), Fraction(2, 2)>>
    /\ futures[1].failed = max_retries
    /\ futures[2].failed = 0
    /\ all_judge_ratings[1].candidate_id = candidates[2].candidate_id

----------------------------------------------------------------------------
\* The session flags after a run

\* C33: when a run that found start_pipeline set has finished (through a
\* handler or rejected for missing inputs), processing, start_pipeline and
\* stop_requested are all false.
C33_FlagsClearedAfterRun ==
    r_pc = "ended" => (~processing /\ ~start_pipeline /\ ~stop_requested)

----------------------------------------------------------------------------
\* The identity of the ratings of _judge_batch (SpecBatch)

\* The elements of the reply that _judge_batch pairs with a member of the batch
PairedElements(reply, n) ==
    IF reply[1] = "json" /\ RatingsArray(reply[2])[1] = "ok"
    THEN LET arr == RatingsArray(reply[2])[2] IN SubSeq(arr, 1, Min(Len(arr), n))
    ELSE << >>

\* The paired elements that are objects holding the key
PairedWith(reply, n, key) ==
    {i \in 1..Len(PairedElements(reply, n)) :
        IsDict(PairedElements(reply, n)[i]) /\ Has(PairedElements(reply, n)[i], key)}

\* C34: the ratings _judge_batch returns carry, position by position, the
\* candidate_id and the file of the candidates it was given, whatever 'file'
\* the reply elements name; and an attempt whose reply pairs a member of the
\* batch with an element holding a candidate_id of its own fails.
C34_IdentityFromCandidate ==
    /\ []((jpc = "batch" /\ futures[1].state = "done" /\ futures[1].outcome[1] = "return")
            => /\ Len(futures[1].outcome[2]) = Len(candidates)
               /\ \A i \in 1..Len(candidates) :
                     /\ futures[1].outcome[2][i].candidate_id = candidates[i].candidate_id
                     /\ futures[1].outcome[2][i].file = candidates[i].file)
    /\ [][(jpc = "batch" /\ futures[1].state = "running" /\ reply_in # <<"none">>
              /\ PairedWith(reply_in, Len(candidates), "candidate_id") # {})
            => futures'[1].failed = futures[1].failed + 1]_vars

C34_Witness ==
    /\ jpc = "batch" /\ futures[1].state = "done"
    /\ Len(candidates) = 2
    /\ reply_in = <<"json", List(<<ElFull, ElWithId>>)>>
    /\ PairedWith(reply_in, 2, "file") = {1, 2}
    /\ futures[1].failed = max_retries
    /\ futures[1].outcome[2][2].file = candidates[2].file

----------------------------------------------------------------------------
\* An empty ratings array (SpecBatch)

\* A bare empty array, or an object whose "ratings" is an empty array
EmptyArrayReply(reply) ==
    reply \in {<<"json", List(<< >>)>>, <<"json", Dict(<< <<"ratings", List(<< >>)>> >>)>>}

\* C35: the attempt that receives an empty ratings array ends the call of
\* _judge_batch: every member of the batch gets the fallback built from its
\* original Rating, the attempt is not counted as failed, nothing is waited
\* for and the service is not called again; when it is the answer to the
\* first call, the service was called exactly once.
C35_EmptyArrayFallsBackAtOnce ==
    /\ [][(jpc = "batch" /\ futures[1].state = "running" /\ EmptyArrayReply(reply_in))
            => /\ futures'[1].state = "done"
               /\ futures'[1].outcome =
                      <<"return", BatchFallback(candidates, ratings, NoteParsing)>>
               /\ Len(futures'[1].outcome[2]) = Len(candidates)
               /\ futures'[1].calls = futures[1].calls + 1
               /\ futures'[1].failed = futures[1].failed
               /\ futures'[1].slept = futures[1].slept]_vars
    /\ []((jpc = "batch" /\ futures[1].state = "done" /\ EmptyArrayReply(reply_in)
              /\ futures[1].failed = 0)
            => futures[1].calls = 1)

C35_Witness ==
    /\ jpc = "batch" /\ futures[1].state = "done"
    /\ Len(candidates) = 2
    /\ reply_in = <<"json", Dict(<< <<"ratings", List(<< >>)>> >>)>>
    /\ futures[1].calls = 1
    /\ futures[1].outcome[2][2].score_adjustment = Str(NoteParsing)
    /\ futures[1].outcome[2][2].score = ratings[2].score

----------------------------------------------------------------------------
\* SpecFixed: judge_all with a service whose reply is a function of the batch

\* The answers such a service may give to the prompt of a batch of n
FixedReplies(n) ==
    {<<"raise">>, <<"not_json">>,
     <<"json", List(<< >>)>>,
     <<"json", List([i \in 1..n |-> IF i % 2 = 1 THEN ElFull ELSE ElMinimal])>>,
     <<"json", List([i \in 1..(n - 1) |-> ElMinimal])>>,
     <<"json", List([i \in 1..(n + 1) |-> ElFull])>>,
     <<"json", List([i \in 1..n |-> IF i = 1 THEN ElWithId ELSE ElFull])>>,
     <<"json", Dict(<< <<"ratings", List([i \in 1..n |-> ElMinimal])>> >>)>>}

\* len(candidates[i:i + size]) for the b-th batch of n candidates
BatchLen(n, size, b) == Min(size, n - (b - 1) * size)

\* A pool worker makes one attempt for batch b; the service answers as it
\* always does for that batch
judge_batch_attempt_fixed(b) ==
    /\ jpc = "pool"
    /\ b \in DOMAIN futures
    /\ attempt_with(b, judge_service[b])
    /\ UNCHANGED reply_in

InitFixed ==
    /\ batch_size \in 1..MaxBatch
    /\ max_workers \in 1..MaxWorkers
    /\ \E n \in 0..MaxN :
          /\ candidates = [i \in 1..n |-> CandidateInfo(i)]
          /\ ratings = [i \in 1..n |-> InitialRating(i)]
          /\ judge_service \in
                {svc \in [1..total_batches(n, batch_size) ->
                              UNION {FixedReplies(k) : k \in 1..MaxBatch}] :
                    \A b \in DOMAIN svc : svc[b] \in FixedReplies(BatchLen(n, batch_size, b))}
    /\ batches = << >> /\ futures = << >> /\ all_judge_ratings = << >>
    /\ completed_batches = 0 /\ progress_calls = << >>
    /\ jpc = "ready" /\ reply_in = <<"none">>
    /\ AppOff /\ ParseOff /\ CombineOff /\ ExtractOff /\ RunOff /\ RateOff

NextFixed ==
    \/ judge_all_begin
    \/ \E b \in 1..MaxN : worker_takes(b)
    \/ \E b \in 1..MaxN : judge_batch_attempt_fixed(b)
    \/ \E b \in 1..MaxN : fan_in(b)
    \/ judge_all_return

SpecFixed == InitFixed /\ [][NextFixed]_vars

\* What the call of batch b hands to the loop when every attempt is answered
\* by `reply`
ResultOnReply(b, reply) ==
    LET cands == batches[b].batch_candidates
        rats == batches[b].batch_ratings
        tried == JudgeAttempt(reply, cands, rats)
        ended == IF tried[1] = "raise"
                 THEN AfterFailure(tried[2], max_retries - 1, cands, rats)
                 ELSE tried
    IN IF ended[1] = "return" THEN ended[2]
       ELSE BatchFallback(cands, rats, NoteBatchError(batches[b].batch_num))

RECURSIVE InBatchOrder(_)
\* The results of the first k batches, one batch after the other
InBatchOrder(k) ==
    IF k = 0 THEN << >>
    ELSE InBatchOrder(k - 1) \o ResultOnReply(k, judge_service[k])

\* How many times x occurs in the list
Occurrences(list, x) == Cardinality({i \in 1..Len(list) : list[i] = x})

\* C36: with a service that answers each batch always the same way, the list
\* judge_all returns holds the same JudgeRatings, each as many times, as the
\* list built batch after batch from those answers; neither the completion
\* order of the batches nor max_workers changes anything but the order.
C36_ResultIndependentOfSchedule ==
    /\ jpc # "raised"
    /\ jpc = "returned" =>
          LET expected == Reconciled(InBatchOrder(Len(batches)), candidates, ratings)
          IN /\ Len(all_judge_ratings) = Len(expected)
             /\ \A i \in 1..Len(expected) :
                   Occurrences(all_judge_ratings, expected[i])
                       = Occurrences(expected, expected[i])

C36_Witness ==
    /\ jpc = "returned"
    /\ max_workers = 2 /\ Len(batches) = 2
    /\ judge_service[1] = <<"raise">>
    /\ judge_service[2] = <<"json", List(<<ElFull>>)>>
    /\ all_judge_ratings[1].candidate_id = candidates[2].candidate_id
    /\ all_judge_ratings[1].score_adjustment = Str("adjusted")
    /\ all_judge_ratings[2].score_adjustment = Str(NoteRetries)

----------------------------------------------------------------------------
\* The score of a rating reply (SpecRate)

\* The reply is an object without the identity keys whose text fields are
\* strings, null or missing
TextFieldsAccepted ==
    /\ rt_reply[1] = "json" /\ IsDict(rt_reply[2])
    /\ ~Has(rt_reply[2], "candidate_id") /\ ~Has(rt_reply[2], "file")
    /\ \A f \in {"strengths", "weaknesses", "rationale"} :
          ~IsList(GetOrNone(rt_reply[2], f))

\* C37: when the reply holds a score that float() cannot convert (a word, a
\* null), rate returns the candidate's Rating with score 0.0; when the reply
\* holds no score, rate raises.
C37_BadScoreBecomesZero ==
    (rt_out \notin {<<"off">>, <<"pending">>} /\ TextFieldsAccepted)
    => /\ (Has(rt_reply[2], "score") /\ Get(rt_reply[2], "score") \in {Str("alto"), None})
             => /\ rt_out[1] = "return"
                /\ rt_out[2].score = Float(0)
                /\ rt_out[2].candidate_id = rt_candidate.candidate_id
       /\ ~Has(rt_reply[2], "score") => rt_out[1] = "raise"

====
